---- MODULE Spec2Model ----
(***************************************************************************)
(* Verification model of the Estonian archery results manager:            *)
(*   - the club vocabulary store (src/src/utils/clubStore.ts)             *)
(*   - the record parser and its normalizers (src/src/utils/parsing.ts,   *)
(*     src/src/utils/scoreValidation.ts)                                  *)
(*   - the two-phase ticket review (src/src/components/review/            *)
(*     ReviewModule.tsx)                                                  *)
(*   - the steps of the application (App)                                 *)
(*                                                                         *)
(* Text is modelled as a sequence of one-character strings, so that trim, *)
(* case folding, splitting and pattern tests are computed, not assumed.   *)
(* Object keys that the code builds by joining parts with "::" are        *)
(* modelled as the tuple of their parts.                                  *)
(***************************************************************************)
EXTENDS Integers, Sequences, FiniteSets, TLC

VARIABLES
    _clubs,        \* clubStore.ts: let _clubs
    storage,       \* localStorage item under STORAGE_KEY
    _listeners,    \* clubStore.ts: let _listeners
    storeOp,       \* the last store call: its name, return value and the observers it invoked
    records,              \* ReviewModule prop: the parsed records
    importTickets,        \* ReviewModule: useMemo(buildTickets(records))
    phase,                \* ReviewModule state
    intermediateRecords,  \* ReviewModule state
    consistencyTickets,   \* ReviewModule state
    currentIdx,           \* TicketReview state
    decisions,            \* TicketReview state: the entries in key insertion order
    reviewOp,      \* the last review handler, with the position and decisions it started from
    finalised,     \* the decision maps handed to onFinalise so far
    fixedRecords,  \* the records handed to transitionToConsistency
    autoFixed,     \* the records autoFixAgeClasses returned
    finalRecords,  \* the records handed to onComplete
    completed,     \* onComplete has been called
    args,          \* the arguments a function of the parser is about to be called with
    call,          \* the last such call: the function, its arguments and what it returned
    step,          \* App state: the step on screen
    parsed,        \* App state: the records of the last import
    reviewed       \* App state: the records the database is shown

storeVars == <<_clubs, storage, _listeners, storeOp>>

reviewVars ==
    <<records, importTickets, phase, intermediateRecords, consistencyTickets, currentIdx,
      decisions, reviewOp, finalised, fixedRecords, autoFixed, finalRecords, completed>>

callVars == <<args, call>>

appVars == <<step, parsed, reviewed>>

vars == <<storeVars, reviewVars, callVars, appVars>>

-----------------------------------------------------------------------------
(* Text primitives                                                         *)

UpperLetters == <<"A","B","C","D","E","F","G","H","I","J","K","L","M",
                  "N","O","P","Q","R","S","T","U","V","W","X","Y","Z">>

LowerLetters == <<"a","b","c","d","e","f","g","h","i","j","k","l","m",
                  "n","o","p","q","r","s","t","u","v","w","x","y","z">>

Digits == <<"0","1","2","3","4","5","6","7","8","9">>

IndexIn(c, letters) ==
    IF \E i \in DOMAIN letters : letters[i] = c
    THEN CHOOSE i \in DOMAIN letters : letters[i] = c
    ELSE 0

\* the character at position i of the other alphabet, c itself when i = 0
otherCase(c, i, letters) == IF i > 0 THEN letters[i] ELSE c

toUpperChar(c) == otherCase(c, IndexIn(c, LowerLetters), UpperLetters)

toLowerChar(c) == otherCase(c, IndexIn(c, UpperLetters), LowerLetters)

toUpperCase(s) == [i \in DOMAIN s |-> toUpperChar(s[i])]

toLowerCase(s) == [i \in DOMAIN s |-> toLowerChar(s[i])]

IsSpace(c) == c = " "

IsDigit(c) == IndexIn(c, Digits) > 0

\* String.prototype.trim: drop leading and trailing white space
trim(s) ==
    IF \A i \in DOMAIN s : IsSpace(s[i]) THEN <<>>
    ELSE LET first == CHOOSE i \in DOMAIN s :
                          /\ ~IsSpace(s[i])
                          /\ \A j \in 1..(i-1) : IsSpace(s[j])
             last  == CHOOSE i \in DOMAIN s :
                          /\ ~IsSpace(s[i])
                          /\ \A j \in (i+1)..Len(s) : IsSpace(s[j])
         IN  SubSeq(s, first, last)

Range(seq) == {seq[i] : i \in DOMAIN seq}

\* the array of the values f[1], ..., f[Len(f)]
Array(f) == f \o <<>>

\* the elements of seq at the indices in kept, in order
elementsAt(seq, kept) ==
    [k \in 1..Cardinality(kept) |->
        seq[CHOOSE i \in kept : Cardinality({j \in kept : j <= i}) = k]]

-----------------------------------------------------------------------------
(* More text primitives used by the normalizers                            *)

Min(a, b) == IF a < b THEN a ELSE b

Max(a, b) == IF a > b THEN a ELSE b

\* first index k >= i of s that is not a digit (Len(s)+1 when there is none)
DigitsEnd(s, i) ==
    CHOOSE k \in i..(Len(s) + 1) :
        /\ k = Len(s) + 1 \/ ~IsDigit(s[k])
        /\ \A j \in i..(k - 1) : IsDigit(s[j])

\* first index k >= i of s that is not white space
SpacesEnd(s, i) ==
    CHOOSE k \in i..(Len(s) + 1) :
        /\ k = Len(s) + 1 \/ ~IsSpace(s[k])
        /\ \A j \in i..(k - 1) : IsSpace(s[j])

\* value of a non-empty run of decimal digits
RECURSIVE DigitsValue(_)
DigitsValue(ds) ==
    IF ds = <<>> THEN 0
    ELSE 10 * DigitsValue(SubSeq(ds, 1, Len(ds) - 1)) + (IndexIn(ds[Len(ds)], Digits) - 1)

\* decimal digits of a natural number
RECURSIVE NatToString(_)
NatToString(n) ==
    IF n < 10 THEN <<Digits[n + 1]>>
    ELSE NatToString(n \div 10) \o <<Digits[(n % 10) + 1]>>

\* String(n) / n.toString() of an integer
String(n) == IF n < 0 THEN <<"-">> \o NatToString(0 - n) ELSE NatToString(n)

\* the value JavaScript calls NaN, as an integer no score can take
NaN == 0 - 1000000

\* the digits s[from..to-1] as a number, negated after a minus sign
signedValue(s, negative, from, to) ==
    IF to = from THEN NaN
    ELSE IF negative THEN 0 - DigitsValue(SubSeq(s, from, to - 1))
    ELSE DigitsValue(SubSeq(s, from, to - 1))

\* parseInt of the text that starts at position i of s
parseIntFrom(s, i) ==
    IF i <= Len(s) /\ s[i] \in {"-", "+"}
    THEN signedValue(s, s[i] = "-", i + 1, DigitsEnd(s, i + 1))
    ELSE signedValue(s, FALSE, i, DigitsEnd(s, i))

\* parseInt(s): optional white space, optional sign, then the longest run of
\* digits; NaN when there is no digit
parseInt(s) == parseIntFrom(s, SpacesEnd(s, 1))

\* Number of a text without white space around it
numberOf(t) ==
    IF t = <<>> THEN 0
    ELSE IF DigitsEnd(t, IF t[1] \in {"-", "+"} THEN 2 ELSE 1) = Len(t) + 1
            /\ IsDigit(t[Len(t)])
    THEN parseIntFrom(t, 1)
    ELSE NaN

\* Number(s) on texts without a decimal point, exponent or radix prefix:
\* white space only is 0, an optionally signed run of digits is its value,
\* anything else is NaN
Number(s) == numberOf(trim(s))

\* JavaScript truthiness of a number
Truthy(n) == n # NaN /\ n # 0

\* s.includes(sub)
includes(s, sub) ==
    \E i \in 1..(Len(s) - Len(sub) + 1) : SubSeq(s, i, i + Len(sub) - 1) = sub

\* s.split(/\s+/)[0] of a text
firstWord(s) ==
    LET stop == CHOOSE k \in 1..(Len(s) + 1) :
                    /\ k = Len(s) + 1 \/ IsSpace(s[k])
                    /\ \A j \in 1..(k - 1) : ~IsSpace(s[j])
    IN  SubSeq(s, 1, stop - 1)

\* s.replace(/<[^>]*>/g, '')
RECURSIVE stripTags(_)
stripTags(s) ==
    IF ~\E i \in DOMAIN s : s[i] = "<" /\ \E j \in (i+1)..Len(s) : s[j] = ">"
    THEN s
    ELSE LET i == CHOOSE i \in DOMAIN s :
                      /\ s[i] = "<"
                      /\ \A k \in 1..(i-1) : s[k] # "<"
             j == CHOOSE j \in (i+1)..Len(s) :
                      /\ s[j] = ">"
                      /\ \A k \in (i+1)..(j-1) : s[k] # ">"
         IN  SubSeq(s, 1, i - 1) \o stripTags(SubSeq(s, j + 1, Len(s)))

sanitize(v) == trim(stripTags(v))

\* s.split(sep) for a one-character separator
RECURSIVE split(_, _)
split(s, sep) ==
    IF ~\E i \in DOMAIN s : s[i] = sep THEN <<s>>
    ELSE LET i == CHOOSE i \in DOMAIN s : s[i] = sep /\ \A k \in 1..(i-1) : s[k] # sep
         IN  <<SubSeq(s, 1, i - 1)>> \o split(SubSeq(s, i + 1, Len(s)), sep)

-----------------------------------------------------------------------------
(* Score validation (scoreValidation.ts)                                   *)

MAX_POINTS_PER_DISTANCE == 360

\* the rest of /^(\d+)\s*[xX×]\s*\d+m$/ from the second run of digits on:
\* group 1 ends before d1, the second number is s[d2..m-1]
multiplierTail(s, d1, d2, m) ==
    IF m > d2 /\ m = Len(s) /\ s[m] = "m" THEN SubSeq(s, 1, d1 - 1) ELSE <<>>

\* the pattern from its multiplication sign, expected at position x
multiplierDigits(s, d1, d2) == multiplierTail(s, d1, d2, DigitsEnd(s, d2))

multiplierSign(s, d1, x) ==
    IF d1 > 1 /\ x <= Len(s) /\ s[x] \in {"x", "X", "×"}
    THEN multiplierDigits(s, d1, SpacesEnd(s, x + 1))
    ELSE <<>>

multiplierGroup(s, d1) == multiplierSign(s, d1, SpacesEnd(s, d1))

\* s.match(/^(\d+)\s*[xX×]\s*\d+m$/): the text of group 1, or <<>> when
\* there is no match
multiplierMatch(s) == multiplierGroup(s, DigitsEnd(s, 1))

\* s.match(/^\d+m$/)
singleDistanceMatch(s) ==
    /\ Len(s) >= 2
    /\ DigitsEnd(s, 1) = Len(s)
    /\ s[Len(s)] = "m"

\* a loop in which every part that is not of the form n x dist counts as one
partDistancesEachOne(trimmedPart, partMultiplier) ==
    IF partMultiplier # <<>> THEN parseInt(partMultiplier) ELSE 1

\* what one '+'-separated part adds to totalDistances
partDistances(trimmedPart, partMultiplier) ==
    IF partMultiplier # <<>> THEN parseInt(partMultiplier)
    ELSE IF singleDistanceMatch(trimmedPart) THEN 1
    ELSE 0

partCount(trimmedPart) == partDistances(trimmedPart, multiplierMatch(trimmedPart))

\* the loop over the '+'-separated parts
RECURSIVE totalDistances(_)
totalDistances(parts) ==
    IF parts = <<>> THEN 0
    ELSE partCount(trim(Head(parts))) + totalDistances(Tail(parts))

\* totalDistances > 0 ? totalDistances : 1
positiveOrOne(total) == IF total > 0 THEN total ELSE 1

distanceCount(normalized, match) ==
    IF match # <<>> THEN parseInt(match)
    ELSE IF includes(normalized, <<"+">>)
    THEN positiveOrOne(totalDistances(split(normalized, "+")))
    ELSE 1

normalizedCount(normalized) == distanceCount(normalized, multiplierMatch(normalized))

parseDistanceCount(distance) ==
    IF distance = <<>> THEN 1 ELSE normalizedCount(toLowerCase(trim(distance)))

getMaxScore(distance) == parseDistanceCount(distance) * MAX_POINTS_PER_DISTANCE

\* validateScore with the maximum already computed
validation(score, maxScore) ==
    IF score < 0
    THEN [valid |-> FALSE, kind |-> "negative", maxScore |-> maxScore]
    ELSE IF score > maxScore
    THEN [valid |-> FALSE, kind |-> "exceeds-maximum", maxScore |-> maxScore]
    ELSE [valid |-> TRUE, kind |-> "ok", maxScore |-> maxScore]

validateScore(score, distance) == validation(score, getMaxScore(distance))

-----------------------------------------------------------------------------
(* Field normalizers (parsing.ts)                                          *)

Recurve  == <<"R","e","c","u","r","v","e">>
Compound == <<"C","o","m","p","o","u","n","d">>
Barebow  == <<"B","a","r","e","b","o","w">>
Longbow  == <<"L","o","n","g","b","o","w">>

\* BOW_TRANSLATIONS (constants/clubs.ts) as key/value pairs
BOW_TRANSLATIONS ==
    << <<<<"s","p","o","r","t","v","i","b","u">>,  Recurve>>,
       <<<<"p","l","o","k","k","v","i","b","u">>,  Compound>>,
       <<<<"v","a","i","s","t","u","v","i","b","u">>, Barebow>>,
       <<<<"p","i","k","k","v","i","b","u">>,   Longbow>>,
       <<<<"r","e","c","u","r","v","e">>,    Recurve>>,
       <<<<"c","o","m","p","o","u","n","d">>,   Compound>>,
       <<<<"b","a","r","e","b","o","w">>,    Barebow>>,
       <<<<"l","o","n","g","b","o","w">>,    Longbow>> >>

\* table[key] ?? 'Recurve'
translation(table, found) ==
    IF found = {} THEN Recurve ELSE table[CHOOSE i \in found : TRUE][2]

bowOfKey(table, key) == translation(table, {i \in DOMAIN table : table[i][1] = key})

translateBowType(raw) ==
    IF raw = <<>> THEN Recurve ELSE bowOfKey(BOW_TRANSLATIONS, toLowerCase(firstWord(trim(raw))))

Adult == <<"A","d","u","l","t">>
U21   == <<"U","2","1">>
U18   == <<"U","1","8">>
U15   == <<"U","1","5">>
U13   == <<"U","1","3">>
P50   == <<"+","5","0">>
P60   == <<"+","6","0">>
P70   == <<"+","7","0">>

ageClassIn(combined) ==
    IF includes(combined, U21) THEN U21
    ELSE IF includes(combined, U18) THEN U18
    ELSE IF includes(combined, U15) THEN U15
    ELSE IF includes(combined, U13) THEN U13
    ELSE IF includes(combined, P60) \/ includes(combined, P70) THEN P60
    ELSE IF includes(combined, P50) THEN P50
    ELSE Adult

extractAgeClass(ageField, classField) ==
    ageClassIn(toUpperCase(ageField \o <<" ">> \o classField))

Men   == <<"M","e","n">>
Women == <<"W","o","m","e","n">>

genderIn(lowered) ==
    IF includes(lowered, <<"n","a","i","s","e","d">>) \/ includes(lowered, <<"w","o","m","e","n">>) THEN Women ELSE Men

\* the patterns are case-insensitive
extractGender(classField) == genderIn(toLowerCase(classField))

\* s.match(/^2\s*[xX]\s*(\d+)/) with x the position after "2" and its white
\* space; group 1 is s[d2..e-1]
doubleDistance(s, x, d2, e) ==
    IF s[1] = "2" /\ x <= Len(s) /\ s[x] \in {"x", "X"} /\ e > d2
    THEN <<"2", "x">> \o SubSeq(s, d2, e - 1) \o <<"m">>
    ELSE s

doubleDigits(s, x, d2) == doubleDistance(s, x, d2, DigitsEnd(s, d2))

doubleSign(s, x) == doubleDigits(s, x, SpacesEnd(s, x + 1))

distanceOf(s, lowered) ==
    IF s = <<>> THEN s
    ELSE IF DigitsEnd(s, 1) = Len(s) + 1 THEN s \o <<"m">>
    ELSE IF singleDistanceMatch(lowered) THEN lowered
    ELSE doubleSign(s, SpacesEnd(s, 2))

trimmedDistance(s) == distanceOf(s, toLowerCase(s))

normalizeDistance(d) == IF d = <<>> THEN <<>> ELSE trimmedDistance(trim(d))

-----------------------------------------------------------------------------
(* Club vocabulary store                                                   *)

Club(code, name) == [code |-> code, name |-> name]

UserClub(code, name) == [code |-> code, name |-> name, userAdded |-> TRUE]

\* c.userAdded of an entry that may lack the property (undefined is falsy)
userAdded(c) == "userAdded" \in DOMAIN c /\ c.userAdded

SAG == <<"S","A","G">>
NS  == <<"N","S">>
TVK == <<"T","V","K">>

Sagittarius    == <<"S","a","g","i","t","t","a","r","i","u","s">>
NSArcheryClub  == <<"N","S"," ","A","r","c","h","e","r","y"," ","C","l","u","b">>
TartuVibuklubi == <<"T","a","r","t","u"," ","V","i","b","u","k","l","u","b","i">>
TallinnaSK     == <<"T","a","l","l","i","n","n","a"," ","S","K">>

\* the shipped list, restricted to three of its entries
BUILT_IN_CLUBS ==
    << Club(SAG, Sagittarius), Club(NS, NSArcheryClub), Club(TVK, TartuVibuklubi) >>

\* the list an earlier build shipped, restricted to the same codes: SAG and
\* NS under their former names, TVK not yet shipped
EARLIER_BUILT_IN_CLUBS ==
    << Club(SAG, TallinnaSK), Club(NS, NS) >>

NoRaw   == [kind |-> "none"]
Corrupt == [kind |-> "corrupt"]
Json(clubs) == [kind |-> "json", value |-> clubs]

loadFromStorage(raw) ==
    IF raw.kind = "none" THEN BUILT_IN_CLUBS
    ELSE IF raw.kind = "corrupt" THEN BUILT_IN_CLUBS
    ELSE LET stored  == raw.value
             codes   == {stored[i].code : i \in DOMAIN stored}
             NotStored(c) == c.code \notin codes
             missing == SelectSeq(BUILT_IN_CLUBS, NotStored)
         IN  missing \o stored

saveToStorage(clubs) == Json(clubs)

\* a notify that stops after the first observer
notifyFirst(listeners) == IF listeners = <<>> THEN <<>> ELSE <<listeners[1]>>

\* notify(): every subscribed observer is called, in subscription order; it
\* is the last statement of a mutating call, so what an observer reads through
\* getClubs() is the list the call produced (storeOp.seen)
notify(listeners) == listeners

\* subscribeToClubs(fn) and the unsubscribe function it returns
subscribeToClubs(listeners, fn) == Append(listeners, fn)

unsubscribe(listeners, fn) == SelectSeq(listeners, LAMBDA l : l # fn)

\* an addClub that keeps the code as typed, trimmed only
addClubAsTyped(clubs, code, name) ==
    LET trimCode == trim(code)
        trimName == trim(name)
    IN  IF trimCode = <<>> \/ trimName = <<>>
        THEN [ret |-> FALSE, clubs |-> clubs]
        ELSE IF \E i \in DOMAIN clubs : clubs[i].code = trimCode
        THEN [ret |-> FALSE, clubs |-> clubs]
        ELSE [ret |-> TRUE, clubs |-> Append(clubs, UserClub(trimCode, trimName))]

\* an addClub that puts the new entry in front of the list
addClubInFront(clubs, code, name) ==
    LET trimCode == toUpperCase(trim(code))
        trimName == trim(name)
    IN  IF trimCode = <<>> \/ trimName = <<>>
        THEN [ret |-> FALSE, clubs |-> clubs]
        ELSE IF \E i \in DOMAIN clubs : clubs[i].code = trimCode
        THEN [ret |-> FALSE, clubs |-> clubs]
        ELSE [ret |-> TRUE, clubs |-> <<UserClub(trimCode, trimName)>> \o clubs]

\* addClub(code, name): the outcome as (return value, new list, whether saved and notified)
addClub(clubs, code, name) ==
    LET trimCode == toUpperCase(trim(code))
        trimName == trim(name)
    IN  IF trimCode = <<>> \/ trimName = <<>>
        THEN [ret |-> FALSE, clubs |-> clubs]
        ELSE IF \E i \in DOMAIN clubs : clubs[i].code = trimCode
        THEN [ret |-> FALSE, clubs |-> clubs]
        ELSE [ret |-> TRUE, clubs |-> Append(clubs, UserClub(trimCode, trimName))]

\* removeClub(code)
removeClub(clubs, code) ==
    LET found == {i \in DOMAIN clubs : clubs[i].code = code}
    IN  IF found = {} THEN [ret |-> FALSE, clubs |-> clubs]
        ELSE LET club == clubs[CHOOSE i \in found : \A j \in found : i <= j]
             IN  IF ~userAdded(club) THEN [ret |-> FALSE, clubs |-> clubs]
                 ELSE [ret |-> TRUE,
                       clubs |-> SelectSeq(clubs, LAMBDA c : c.code # code)]

\* resetClubs()
resetClubs == BUILT_IN_CLUBS

-----------------------------------------------------------------------------
(* Club matching and the record parser (parsing.ts)                        *)

STRIP_TERMS ==
    << <<"v","i","b","u","k","l","u","b","i">>, <<"v","i","b","u","k","o","o","l">>, <<"v","i","b","u">>,
       <<"s","p","o","r","d","i","k","l","u","b","i">>, <<"s","p","o","r","d","i","k","o","o","l">>, <<"s","p","o","r","d","i","k","e","s","k","u","s">>, <<"s","p","o","r","d","i","ü","h","i","n","g">>, <<"s","p","o","r","t","k","l","u","b","i">>,
       <<"k","l","u","b","i">>, <<"k","o","o","l">>, <<"ü","h","i","n","g">>, <<"s","e","l","t","s">>, <<"l","i","i","t">>, <<"r","a","h","v","a","s","p","o","r","d","i","k","l","u","b","i">>,
       <<"l","a","s","k","u","r","v","i","b","u","k","l","u","b","i">>,
       <<"s","k">> >>

\* the characters \w of a regular expression matches
WordChars == Range(UpperLetters) \cup Range(LowerLetters) \cup Range(Digits) \cup {"_"}

\* s[p] exists and is a word character
IsWordChar(s, p) == p >= 1 /\ p <= Len(s) /\ s[p] \in WordChars

\* \b holds between s[p-1] and s[p]
IsBoundary(s, p) == IsWordChar(s, p - 1) # IsWordChar(s, p)

TermAt(s, term, i) ==
    /\ i + Len(term) - 1 <= Len(s)
    /\ SubSeq(s, i, i + Len(term) - 1) = term
    /\ IsBoundary(s, i)
    /\ IsBoundary(s, i + Len(term))

\* Array.prototype.find and the first match of a pattern: the least index of
\* a set of indices (0 when there is none)
FirstIndex(S) == IF S = {} THEN 0 ELSE CHOOSE i \in S : \A j \in S : i <= j

\* s.replace(new RegExp(`\\b${term}\\b`, 'gi'), '') from index `from` on;
\* removeFirst cuts the match found at index i and searches on behind it
RECURSIVE removeTerm(_, _, _)
RECURSIVE removeFirst(_, _, _, _)
removeFirst(s, term, from, i) ==
    IF i = 0 THEN SubSeq(s, from, Len(s))
    ELSE SubSeq(s, from, i - 1) \o removeTerm(s, term, i + Len(term))

removeTerm(s, term, from) ==
    removeFirst(s, term, from, FirstIndex({i \in from..Len(s) : TermAt(s, term, i)}))

\* every white space character as a blank
blanks(text) == [k \in DOMAIN text |-> IF IsSpace(text[k]) THEN " " ELSE text[k]]

\* s.replace(/\s+/g, ' '): of every run of white space only the first
\* character stays, as a blank
collapseSpaces(s) ==
    blanks(elementsAt(s, {i \in DOMAIN s : ~IsSpace(s[i]) \/ i = 1 \/ ~IsSpace(s[i - 1])}))

\* if (stripped.length > 2) result = stripped
strippedOr(stripped, result) == IF Len(stripped) > 2 THEN stripped ELSE result

\* the body of the loop over STRIP_TERMS for the term number k
stripTerm(result, k) ==
    strippedOr(trim(collapseSpaces(removeTerm(result, STRIP_TERMS[k], 1))), result)

\* the loop over the terms numbered lo to hi, started on result. The range is
\* halved and the text it starts from is looked at first (an empty text stays
\* empty), so that the terms are applied in the order of the loop.
RECURSIVE stripLoop(_, _, _)
stripLoop(result, lo, hi) ==
    IF result = <<>> \/ lo > hi THEN result
    ELSE IF lo = hi THEN stripTerm(result, lo)
    ELSE stripLoop(stripLoop(result, lo, (lo + hi) \div 2), (lo + hi) \div 2 + 1, hi)

stripNoiseTerms(input) ==
    IF input = <<>> THEN <<>>
    ELSE IF Len(input) <= 5 THEN toLowerCase(input)
    ELSE trim(stripLoop(toLowerCase(input), 1, Len(STRIP_TERMS)))

\* the row dp[i] of the table from the row prev = dp[i-1], where bc = b[i-1]
\* and matches is the set of the j with a[j-1] = bc.
\* The inner loop over j is unrolled: a cell whose characters match takes the
\* diagonal value; any other cell is 1 + min(diagonal, above, left), and its
\* left neighbour unfolds in the same way back to the nearest matching cell
\* or to column 0. Position j + 1 of a row holds dp[i][j].
levCells(prev, matches, i) ==
    LET own(j)    == IF j = 0 THEN i
                     ELSE IF j \in matches THEN prev[j]
                     ELSE 1 + Min(prev[j], prev[j + 1])
        anchor(j) == CHOOSE k \in {0} \cup matches :
                         k <= j /\ \A m \in matches : m <= j => m <= k
        cell(j)   == LET reach == {own(k) + (j - k) : k \in anchor(j)..j}
                     IN  CHOOSE v \in reach : \A w \in reach : v <= w
    IN  Array([t \in 1..Len(prev) |-> cell(t - 1)])

levRow(prev, bc, a, i) == levCells(prev, {j \in DOMAIN a : a[j] = bc}, i)

\* the outer loop over i from lo to hi, started on the row prev = dp[lo-1].
\* The range is halved and the row it starts from is looked at first (no row
\* is empty), so that the rows are evaluated in the order of the loop.
RECURSIVE levRows(_, _, _, _, _)
levRows(a, b, lo, hi, prev) ==
    IF prev = <<>> \/ lo > hi THEN prev
    ELSE IF lo = hi THEN levRow(prev, b[lo], a, lo)
    ELSE levRows(a, b, (lo + hi) \div 2 + 1, hi,
                 levRows(a, b, lo, (lo + hi) \div 2, prev))

\* dp[b.length][a.length] for the lower-cased texts
levLast(a, b) == levRows(a, b, 1, Len(b), [j \in 1..(Len(a) + 1) |-> j - 1])[Len(a) + 1]

levenshtein(a0, b0) == levLast(Array(toLowerCase(a0)), Array(toLowerCase(b0)))

\* Math.round((1 - dist / maxLen) * 100), floored at 0
fuzzyConfidence(dist, maxLen) ==
    IF dist >= maxLen THEN 0
    ELSE (200 * (maxLen - dist) + maxLen) \div (2 * maxLen)

\* the four distances of the loop over the clubs, and their minimum
clubDistance(trimmed, strippedInput, club) ==
    Min(Min(levenshtein(strippedInput, stripNoiseTerms(club.code)),
            levenshtein(strippedInput, stripNoiseTerms(club.name))),
        Min(levenshtein(trimmed, club.code),
            levenshtein(trimmed, club.name)))

ClubMatchResult(code, confidence, method) ==
    [code |-> code, confidence |-> confidence, method |-> method]

\* if (found) return { code: found.code, confidence: 100, method }, with
\* `otherwise` standing for the code after the if
foundOr(clubs, found, method, otherwise) ==
    IF found > 0 THEN ClubMatchResult(clubs[found].code, 100, method) ELSE otherwise

\* the result of the fuzzy search: best is the first club at the least distance
fuzzyMatch(trimmed, lowered, strippedInput, clubs, dist, best) ==
    IF best > 0
    THEN ClubMatchResult(clubs[best].code,
             fuzzyConfidence(dist[best],
                 Max(Len(strippedInput), Max(Len(clubs[best].code), 1))),
             IF strippedInput # lowered THEN "fuzzy-stripped" ELSE "fuzzy-raw")
    ELSE ClubMatchResult(trimmed, 0, "unknown")

\* the loop over the clubs: d < bestDist keeps the first club among equals
bestMatch(trimmed, lowered, strippedInput, clubs, dist) ==
    fuzzyMatch(trimmed, lowered, strippedInput, clubs, dist,
        FirstIndex({i \in DOMAIN clubs : \A j \in DOMAIN clubs : dist[i] <= dist[j]}))

fuzzySearch(trimmed, lowered, strippedInput, clubs) ==
    bestMatch(trimmed, lowered, strippedInput, clubs,
        Array([i \in DOMAIN clubs |-> clubDistance(trimmed, strippedInput, clubs[i])]))

\* the exact comparisons of the whole text, then the fuzzy search
exactMatch(trimmed, lowered, clubs) ==
    foundOr(clubs,
        FirstIndex({i \in DOMAIN clubs : toLowerCase(clubs[i].code) = lowered}),
        "exact-code",
        foundOr(clubs,
            FirstIndex({i \in DOMAIN clubs : toLowerCase(clubs[i].name) = lowered}),
            "exact-name",
            fuzzySearch(trimmed, lowered, stripNoiseTerms(trimmed), clubs)))

\* the test of the first word as an embedded code, then the rest
embeddedMatch(trimmed, first, clubs) ==
    foundOr(clubs,
        IF Len(first) >= 2 /\ Len(first) <= 5
        THEN FirstIndex({i \in DOMAIN clubs : clubs[i].code = first}) ELSE 0,
        "exact-code-embedded",
        exactMatch(trimmed, toLowerCase(trimmed), clubs))

trimmedMatch(trimmed, clubs) ==
    embeddedMatch(trimmed, trim(toUpperCase(firstWord(trimmed))), clubs)

\* matchClub(input) against the live list getClubs()
matchClub(input, clubs) ==
    IF input = <<>> THEN ClubMatchResult(<<>>, 0, "unknown")
    ELSE trimmedMatch(trim(input), clubs)

Correction(field, original, corrected, method, confidence) ==
    [field |-> field, original |-> original, corrected |-> corrected,
     method |-> method, confidence |-> confidence]

\* corrections.push(c) when the condition of its if holds
pushIf(condition, c) == IF condition THEN <<c>> ELSE <<>>

\* a record whose review flag looks at the club match alone
parsedRecordClubFlag(id, sourceFile, date, athlete, clubRaw, bowClass, ageRaw, normalizedDist, result, competition, clubMatch, bowType, maxScore, scoreIssue, rawBow) ==
    ("_id" :> id) @@ ("Date" :> date) @@ ("Athlete" :> athlete)
    @@ ("Club" :> clubMatch.code) @@ ("Bow Type" :> bowType)
    @@ ("Age Class" :> extractAgeClass(ageRaw, bowClass))
    @@ ("Gender" :> extractGender(bowClass))
    @@ ("Shooting Exercise" :> normalizedDist)
    @@ ("Result" :> result) @@ ("Competition" :> competition)
    @@ ("_sourceFile" :> sourceFile)
    @@ ("_corrections" :>
            pushIf(scoreIssue,
                   Correction("Result", String(result), <<"M","a","x"," ">> \o String(maxScore),
                              "extraction", 0))
            \o pushIf(clubRaw # <<>> /\ clubMatch.confidence < 100,
                      Correction("Club", clubRaw, clubMatch.code, "fuzzy",
                                 clubMatch.confidence))
            \o pushIf(rawBow # <<>> /\ toLowerCase(rawBow) # toLowerCase(bowType),
                      Correction("Bow Type", rawBow, bowType, "translation", 100)))
    @@ ("_needsReview" :> (clubMatch.confidence < 90))
    @@ ("_confidence" :> clubMatch.confidence)

\* the record parseCSVText returns for a row, from the values it has computed
parsedRecord(id, sourceFile, date, athlete, clubRaw, bowClass, ageRaw, normalizedDist, result, competition, clubMatch, bowType, maxScore, scoreIssue, rawBow) ==
    ("_id" :> id) @@ ("Date" :> date) @@ ("Athlete" :> athlete)
    @@ ("Club" :> clubMatch.code) @@ ("Bow Type" :> bowType)
    @@ ("Age Class" :> extractAgeClass(ageRaw, bowClass))
    @@ ("Gender" :> extractGender(bowClass))
    @@ ("Shooting Exercise" :> normalizedDist)
    @@ ("Result" :> result) @@ ("Competition" :> competition)
    @@ ("_sourceFile" :> sourceFile)
    @@ ("_corrections" :>
            pushIf(scoreIssue,
                   Correction("Result", String(result), <<"M","a","x"," ">> \o String(maxScore),
                              "extraction", 0))
            \o pushIf(clubRaw # <<>> /\ clubMatch.confidence < 100,
                      Correction("Club", clubRaw, clubMatch.code, "fuzzy",
                                 clubMatch.confidence))
            \o pushIf(rawBow # <<>> /\ toLowerCase(rawBow) # toLowerCase(bowType),
                      Correction("Bow Type", rawBow, bowType, "translation", 100)))
    @@ ("_needsReview" :> (clubMatch.confidence < 90 \/ scoreIssue))
    @@ ("_confidence" :> clubMatch.confidence)

\* the record once the score has been validated
validatedRecord(id, sourceFile, date, athlete, clubRaw, bowClass, ageRaw, normalizedDist, result, competition, clubs, scoreValidation) ==
    parsedRecord(id, sourceFile, date, athlete, clubRaw, bowClass, ageRaw, normalizedDist,
                 result, competition, matchClub(clubRaw, clubs), translateBowType(bowClass),
                 scoreValidation.maxScore,
                 ~scoreValidation.valid /\ scoreValidation.maxScore # 0,
                 firstWord(bowClass))

\* the record of a row from its sanitized columns
sanitizedRecord(id, sourceFile, date, athlete, clubRaw, bowClass, ageRaw, normalizedDist, result, competition, clubs) ==
    validatedRecord(id, sourceFile, date, athlete, clubRaw, bowClass, ageRaw,
                    normalizedDist, result, competition, clubs,
                    validateScore(result, normalizedDist))

\* parseInt(...) || 0
intOrZero(n) == IF Truthy(n) THEN n ELSE 0

\* the body of data.map in parseCSVText, for row number i (from 0) of a file;
\* the row is given with its headers already mapped
parseRow(row, i, sourceFile, clubs) ==
    sanitizedRecord(i + 1, sourceFile, sanitize(row.Date), sanitize(row.Athlete),
        sanitize(row.Club), sanitize(row.Class), sanitize(row.AgeClass),
        normalizeDistance(sanitize(row.Distance)),
        intOrZero(parseInt(sanitize(IF row.Result = <<>> THEN <<"0">> ELSE row.Result))),
        sanitize(row.Competition), clubs)

\* parseCSVText(text, sourceFile): one record per data row, ids from 1
parseCSVText(rows, sourceFile, clubs) ==
    [i \in DOMAIN rows |-> parseRow(rows[i], i - 1, sourceFile, clubs)]

\* ImportModule.parseFiles: the files one after the other, then ids re-sequenced
RECURSIVE parseAll(_, _)
parseAll(files, clubs) ==
    IF files = <<>> THEN <<>>
    ELSE parseCSVText(Head(files).rows, Head(files).name, clubs) \o parseAll(Tail(files), clubs)

\* the ids as parseCSVText gave them, restarting in every file
perFileIds(all) == all

\* all.forEach((r, i) => { r._id = i + 1; })
resequenced(all) == [i \in DOMAIN all |-> [all[i] EXCEPT !["_id"] = i]]

parseFiles(files, clubs) == resequenced(parseAll(files, clubs))
-----------------------------------------------------------------------------
(* Review: tickets, age-class auto-resolution, applying decisions          *)
(* (ReviewModule.tsx)                                                      *)

\* Array.prototype.sort with a numeric comparator is stable: an element comes
\* after the elements that compare smaller and the earlier ones that compare equal
sortBy(seq, key, descending) ==
    LET Before(j, i) ==
            \/ (IF descending THEN seq[j][key] > seq[i][key] ELSE seq[j][key] < seq[i][key])
            \/ (seq[j][key] = seq[i][key] /\ j < i)
        place(i) == 1 + Cardinality({j \in DOMAIN seq : Before(j, i)})
    IN  [k \in DOMAIN seq |-> seq[CHOOSE i \in DOMAIN seq : place(i) = k]]

\* [...new Set(values)]: the distinct values in order of first occurrence
unique(values) ==
    elementsAt(values, {i \in DOMAIN values : \A j \in 1..(i - 1) : values[j] # values[i]})

\* map.get(key).recordIds.push(id), after map.set(key, fresh) when the key is new
pushRecordId(tickets, fresh, id) ==
    IF \E i \in DOMAIN tickets : tickets[i].id = fresh.id
    THEN [i \in DOMAIN tickets |->
            IF tickets[i].id = fresh.id
            THEN [tickets[i] EXCEPT !.recordIds = Append(@, id)]
            ELSE tickets[i]]
    ELSE Append(tickets, [fresh EXCEPT !.recordIds = <<id>>])

\* the name of a record field as text
fieldName(field) ==
    CASE field = "Club"      -> <<"C","l","u","b">>
      [] field = "Result"    -> <<"R","e","s","u","l","t">>
      [] field = "Bow Type"  -> <<"B","o","w"," ","T","y","p","e">>
      [] field = "Athlete"   -> <<"A","t","h","l","e","t","e">>
      [] field = "Gender"    -> <<"G","e","n","d","e","r">>
      [] field = "Age Class" -> <<"A","g","e"," ","C","l","a","s","s">>

\* a key that tells the fields apart and not the original texts
fieldKey(field, original) == fieldName(field) \o <<":",":">>

\* the key of buildTickets: the field, two colons and the original text
importKey(field, original) == fieldName(field) \o <<":",":">> \o original

\* the ids of the consistency tickets: the word consistency, the field and the
\* normalised name parted by two colons, and the year after them for an age class
consistencyKey(field, normName, year) ==
    <<"c","o","n","s","i","s","t","e","n","c","y",":",":">> \o fieldName(field) \o <<":",":">> \o normName
        \o (IF year = <<>> THEN <<>> ELSE <<":",":">> \o year)

Ticket(id, field, originalValue, suggestedValue, confidence, method) ==
    [id |-> id, field |-> field, originalValue |-> originalValue,
     suggestedValue |-> suggestedValue, confidence |-> confidence,
     method |-> method, recordIds |-> <<>>]

\* map.set(key, {...}) for a correction: the ticket before any record is pushed
correctionTicket(c) ==
    Ticket(importKey(c.field, c.original), c.field, c.original, c.corrected,
           c.confidence, c.method)

\* the inner loop of buildTickets over the corrections of one record
RECURSIVE ticketsOfCorrections(_, _, _)
ticketsOfCorrections(map, corrections, id) ==
    IF corrections = <<>> THEN map
    ELSE ticketsOfCorrections(pushRecordId(map, correctionTicket(Head(corrections)), id),
                              Tail(corrections), id)

\* a pass that opens no ticket for a flagged record without corrections
noSyntheticTicket(map, record) == map

\* the ticket of a flagged record without corrections, keyed by its club
syntheticTicket(map, record) ==
    IF record["_corrections"] = <<>>
    THEN pushRecordId(map,
                      Ticket(importKey("Club", record["Club"]), "Club", record["Club"],
                             record["Club"], record["_confidence"], "unknown"),
                      record["_id"])
    ELSE map

\* the body of the outer loop of buildTickets
recordTickets(map, record) ==
    IF ~record["_needsReview"] THEN map
    ELSE syntheticTicket(ticketsOfCorrections(map, record["_corrections"], record["_id"]),
                         record)

\* the outer loop of buildTickets: the map after the first n records
RECURSIVE ticketMap(_, _)
ticketMap(allRecords, n) ==
    IF n = 0 THEN <<>>
    ELSE recordTickets(ticketMap(allRecords, n - 1), allRecords[n])

buildTickets(allRecords) == sortBy(ticketMap(allRecords, Len(allRecords)), "confidence", FALSE)

unknown == <<"u","n","k","n","o","w","n">>

yearOfParts(dotParts, dashParts) ==
    IF Len(dotParts) = 3 /\ Len(dotParts[3]) = 4 THEN dotParts[3]
    ELSE IF Len(dashParts) = 3 /\ Len(dashParts[1]) = 4 THEN dashParts[1]
    ELSE unknown

extractYear(date) ==
    IF date = <<>> THEN unknown ELSE yearOfParts(split(date, "."), split(date, "-"))

\* [...counts.entries()]: the distinct values in order of first occurrence,
\* each with the number of its occurrences
countEntries(values, variants) ==
    [i \in DOMAIN variants |->
        [value |-> variants[i],
         count |-> Cardinality({k \in DOMAIN values : values[k] = variants[i]})]]

\* { sorted, dominance }, the dominance as the fraction top / total
sortedCounts(values, sorted) ==
    [sorted |-> sorted, top |-> sorted[1].count, total |-> Len(values)]

\* the entries of counts, most frequent first (ties in order of first occurrence)
countVariants(values) ==
    sortedCounts(values, sortBy(countEntries(values, unique(values)), "count", TRUE))

\* the percentage cut off instead of rounded
dominanceFloor(cv) == (100 * cv.top) \div cv.total

\* Math.round(dominance * 100)
dominancePercent(cv) == (200 * cv.top + cv.total) \div (2 * cv.total)

SENIOR_RANK == << <<P50, 1>>, <<P60, 2>>, <<P70, 3>> >>
YOUTH_RANK  == << <<U21, 1>>, <<U18, 2>>, <<U15, 3>>, <<U13, 4>> >>

\* table[ac], and 0 when ac is not a key of the table
rankOf(table, found) == IF found = {} THEN 0 ELSE table[CHOOSE i \in found : TRUE][2]

rankIn(table, ac) == rankOf(table, {i \in DOMAIN table : table[i][1] = ac})

\* the element of lowest rank, as the ascending sort would leave first
lowest(table, classes) ==
    CHOOSE ac \in Range(classes) :
        \A other \in Range(classes) : rankIn(table, ac) <= rankIn(table, other)

\* classes.sort((a, b) => table[b] - table[a])[0]: the element of highest rank
highest(table, classes) ==
    CHOOSE ac \in Range(classes) :
        \A other \in Range(classes) : rankIn(table, other) <= rankIn(table, ac)

\* JavaScript null, as a value no text can take
null == <<"null">>

resolveRanked(seniors, youths) ==
    IF Len(seniors) > 0 /\ Len(youths) = 0 THEN highest(SENIOR_RANK, seniors)
    ELSE IF Len(youths) > 0 /\ Len(seniors) = 0 THEN highest(YOUTH_RANK, youths)
    ELSE null

resolveUnique(uniq) ==
    IF Len(uniq) <= 1 THEN null
    ELSE resolveRanked(SelectSeq(uniq, LAMBDA ac : rankIn(SENIOR_RANK, ac) > 0),
                       SelectSeq(uniq, LAMBDA ac : rankIn(YOUTH_RANK, ac) > 0))

resolveAgeClass(ageClasses) == resolveUnique(unique(ageClasses))

\* `${name.toLowerCase()}__${extractYear(r.Date)}` as the pair of its parts
\* (<<>> for a record the loop skips)
nameYearKey(name, date) ==
    IF name = <<>> THEN <<>> ELSE <<toLowerCase(name), extractYear(date)>>

\* the grouping key of autoFixAgeClasses
ageGroupKey(r) == nameYearKey(trim(r["Athlete"]), r["Date"])

column(recs, field) == [i \in DOMAIN recs |-> recs[i][field]]

\* fixes.get(r._id) for a record of a group whose class resolves to correctClass
classFix(r, correctClass) ==
    IF correctClass = null THEN null
    ELSE IF r["Age Class"] # correctClass THEN correctClass
    ELSE null

groupFix(allRecords, r, key) ==
    IF key = <<>> THEN null
    ELSE classFix(r, resolveAgeClass(
             column(SelectSeq(allRecords, LAMBDA o : ageGroupKey(o) = key), "Age Class")))

\* fixes.get(r._id) in autoFixAgeClasses (null when there is none)
ageFix(allRecords, r) == groupFix(allRecords, r, ageGroupKey(r))

\* a fix that keeps only the new correction and clears the flag
fixedAgeAnew(r, fix) ==
    IF fix = null THEN r
    ELSE [r EXCEPT !["Age Class"] = fix,
                   !["_needsReview"] = FALSE,
                   !["_corrections"] =
                       << Correction("Age Class", r["Age Class"], fix, "extraction", 95) >>]

\* the body of records.map in autoFixAgeClasses
fixedAge(r, fix) ==
    IF fix = null THEN r
    ELSE [r EXCEPT !["Age Class"] = fix,
                   !["_corrections"] =
                       Append(@, Correction("Age Class", r["Age Class"], fix,
                                            "extraction", 95))]

autoFixAgeClasses(allRecords) ==
    [i \in DOMAIN allRecords |-> fixedAge(allRecords[i], ageFix(allRecords, allRecords[i]))]

\* parts.join(sep)
RECURSIVE join(_, _)
join(parts, sep) ==
    IF parts = <<>> THEN <<>>
    ELSE IF Len(parts) = 1 THEN parts[1]
    ELSE parts[1] \o sep \o join(Tail(parts), sep)

\* sorted.map(([v, n]) => `${v} (${n}x)`).join(' / ')
describeVariants(sorted) ==
    join([i \in DOMAIN sorted |->
            sorted[i].value \o <<" ","(">> \o String(sorted[i].count) \o <<"x",")">>],
         <<" ","/"," ">>)

\* the grouping key of buildConsistencyTickets (<<>> for a record it skips)
athleteKey(r) == toLowerCase(trim(r["Athlete"]))

\* a ticket for one field of one group of records, cv being the counts of
\* the values of the field
variantTicket(id, field, originalValue, suggestedValue, cv, recs) ==
    [Ticket(id, field, originalValue, suggestedValue, dominancePercent(cv), "consistency")
        EXCEPT !.recordIds = column(recs, "_id")]

\* resolveAgeClass(ageVariants) ?? sorted[0][0]
orElse(value, fallback) == IF value # null THEN value ELSE fallback

\* the body of the loop over yearGroups
ageTicket(normName, athleteName, year, yearRecs, ageVariants, cv) ==
    IF Len(ageVariants) <= 1 THEN <<>>
    ELSE <<variantTicket(consistencyKey("Age Class", normName, year), "Age Class",
                         athleteName \o <<" ","(">> \o year \o <<")",":"," ">>
                             \o describeVariants(cv.sorted),
                         orElse(resolveAgeClass(ageVariants), cv.sorted[1].value),
                         cv, yearRecs)>>

classTicket(normName, athleteName, year, yearRecs, classes) ==
    ageTicket(normName, athleteName, year, yearRecs, unique(classes), countVariants(classes))

yearTicket(normName, athleteName, year, yearRecs) ==
    classTicket(normName, athleteName, year, yearRecs, column(yearRecs, "Age Class"))

\* one age-class ticket over the records of all years
ageTicketsAcrossYears(normName, athleteName, recs, years) ==
    IF years = <<>> THEN <<>> ELSE yearTicket(normName, athleteName, Head(years), recs)

\* the age-class tickets of one athlete, one per year with more than one class
RECURSIVE ageTickets(_, _, _, _)
ageTickets(normName, athleteName, recs, years) ==
    IF years = <<>> THEN <<>>
    ELSE yearTicket(normName, athleteName, Head(years),
                    SelectSeq(recs, LAMBDA r : extractYear(r["Date"]) = Head(years)))
         \o ageTickets(normName, athleteName, recs, Tail(years))

\* the ticket of the differing spellings of the name
nameTicket(normName, recs, nameVariants, cv) ==
    IF Len(nameVariants) > 1
    THEN <<variantTicket(consistencyKey("Athlete", normName, <<>>), "Athlete",
                         join(nameVariants, <<" ","/"," ">>), cv.sorted[1].value, cv, recs)>>
    ELSE <<>>

\* the ticket of the differing genders, and of the differing bow types
fieldTicket(normName, field, athleteName, recs, cv) ==
    IF Len(cv.sorted) > 1
    THEN <<variantTicket(consistencyKey(field, normName, <<>>), field,
                         athleteName \o <<":"," ">> \o describeVariants(cv.sorted),
                         cv.sorted[1].value, cv, recs)>>
    ELSE <<>>

athleteTickets(normName, recs, nameVariants, athleteName) ==
    nameTicket(normName, recs, nameVariants, countVariants(column(recs, "Athlete")))
    \o fieldTicket(normName, "Gender", athleteName, recs,
                   countVariants(column(recs, "Gender")))
    \o ageTickets(normName, athleteName, recs,
                  unique([i \in DOMAIN recs |-> extractYear(recs[i]["Date"])]))
    \o fieldTicket(normName, "Bow Type", athleteName, recs,
                   countVariants(column(recs, "Bow Type")))

namedTickets(normName, recs, nameVariants) ==
    athleteTickets(normName, recs, nameVariants,
                   IF Len(nameVariants) = 1 THEN nameVariants[1] ELSE recs[1]["Athlete"])

\* the body of the loop over athleteGroups
groupTickets(normName, recs) ==
    IF Len(recs) < 2 THEN <<>>
    ELSE namedTickets(normName, recs, unique(column(recs, "Athlete")))

RECURSIVE ticketsOfGroups(_, _)
ticketsOfGroups(allRecords, keys) ==
    IF keys = <<>> THEN <<>>
    ELSE groupTickets(Head(keys), SelectSeq(allRecords, LAMBDA r : athleteKey(r) = Head(keys)))
         \o ticketsOfGroups(allRecords, Tail(keys))

\* the keys of athleteGroups in insertion order
groupKeys(named) == unique([i \in DOMAIN named |-> athleteKey(named[i])])

buildConsistencyTickets(allRecords) ==
    sortBy(ticketsOfGroups(allRecords,
                           groupKeys(SelectSeq(allRecords, LAMBDA r : athleteKey(r) # <<>>))),
           "confidence", TRUE)
-----------------------------------------------------------------------------
(* Review: decisions and their application                                 *)

RECORD_FIELDS ==
    <<"Date", "Athlete", "Club", "Bow Type", "Age Class", "Gender",
      "Shooting Exercise", "Result", "Competition">>

\* a DecisionEntry under its ticket id; fieldEdits is the empty map when undefined
DecisionEntry(id, decision, value, fieldEdits) ==
    [id |-> id, decision |-> decision, value |-> value, fieldEdits |-> fieldEdits]

NoEdits == <<>>

\* { ...decisions, [id]: entry }: a new key goes last, a known key keeps its place
setDecision(decs, entry) ==
    IF \E i \in DOMAIN decs : decs[i].id = entry.id
    THEN [i \in DOMAIN decs |->
            IF decs[i].id = entry.id THEN entry ELSE decs[i]]
    ELSE Append(decs, entry)

\* decisions[id] (0 when undefined)
decisionIndex(decs, id) == FirstIndex({i \in DOMAIN decs : decs[i].id = id})

\* fixes.get(id)[field] = val, after fixes.set(id, {}) when the id is new
setFix(fixes, id, field, val) ==
    IF id \in DOMAIN fixes
    THEN [fixes EXCEPT ![id] = (field :> val) @@ @]
    ELSE (id :> (field :> val)) @@ fixes

RECURSIVE fixAll(_, _, _, _)
fixAll(fixes, recordIds, field, val) ==
    IF recordIds = <<>> THEN fixes
    ELSE fixAll(setFix(fixes, Head(recordIds), field, val), Tail(recordIds), field, val)

\* the body of the loop over Object.entries(fieldEdits) for the field f
editFix(fixes, repId, ticketField, fieldEdits, f) ==
    IF f \in DOMAIN fieldEdits /\ f # ticketField
    THEN setFix(fixes, repId, f, fieldEdits[f])
    ELSE fixes

\* the loop over Object.entries(fieldEdits), from entry number k on. The
\* fixes it starts from are looked at first (without entries the loop changes
\* nothing), so that the entries are applied in the order of the loop.
RECURSIVE fixEdits(_, _, _, _, _)
fixEdits(fixes, repId, ticketField, fieldEdits, k) ==
    IF k > Len(RECORD_FIELDS) \/ (DOMAIN fixes = {} /\ DOMAIN fieldEdits = {}) THEN fixes
    ELSE fixEdits(editFix(fixes, repId, ticketField, fieldEdits, RECORD_FIELDS[k]),
                  repId, ticketField, fieldEdits, k + 1)

\* an approved decision entered into the fixes: the issue field for every
\* record of the ticket, the other field edits for its first record only
approveFixes(fixes, ticket, entry) ==
    fixEdits(fixAll(fixes, ticket.recordIds, ticket.field, entry.value),
             ticket.recordIds[1], ticket.field, entry.fieldEdits, 1)

\* Number(val) || r.Result
numberOr(n, fallback) == IF Truthy(n) THEN n ELSE fallback

\* field === 'Result' ? (Number(val) || r.Result) : val
fixedValue(r, field, val) ==
    IF field = "Result" THEN numberOr(Number(val), r["Result"]) ELSE val

\* { ...r } with every fixed field overwritten
applyFixes(r, fixes) ==
    IF r["_id"] \notin DOMAIN fixes THEN r
    ELSE [k \in DOMAIN r |->
            IF k \in DOMAIN fixes[r["_id"]]
            THEN fixedValue(r, k, fixes[r["_id"]][k])
            ELSE r[k]]

\* records.map(r => ...) with the fixes applied
fixedBy(recs, fixes) == [i \in DOMAIN recs |-> applyFixes(recs[i], fixes)]

\* tickets.find(t => t.id === id) (0 when undefined)
ticketIndex(tickets, id) == FirstIndex({i \in DOMAIN tickets : tickets[i].id = id})

\* the fixes of an approved entry whose ticket is number t (0: not found)
foundFixes(fixes, tickets, entry, t) ==
    IF t = 0 THEN fixes ELSE approveFixes(fixes, tickets[t], entry)

\* the body of the first loop of handleImportFinalise
entryFixes(fixes, tickets, entry) ==
    IF entry.decision # "approve" THEN fixes
    ELSE foundFixes(fixes, tickets, entry, ticketIndex(tickets, entry.id))

\* approvedFixes of handleImportFinalise after the first n decision entries
RECURSIVE approvedFixes(_, _, _)
approvedFixes(tickets, allDecisions, n) ==
    IF n = 0 THEN <<>>
    ELSE entryFixes(approvedFixes(tickets, allDecisions, n - 1), tickets, allDecisions[n])

\* a second loop that adds only the first record id of each rejected ticket
firstRejectedIds(tickets, allDecisions) ==
    { tickets[FirstIndex({i \in DOMAIN tickets : tickets[i].id = allDecisions[n].id})].recordIds[1] :
        n \in {k \in DOMAIN allDecisions :
                  /\ allDecisions[k].decision = "reject"
                  /\ \E i \in DOMAIN tickets : tickets[i].id = allDecisions[k].id} }

\* the second loop of handleImportFinalise
rejectedIds(tickets, allDecisions) ==
    UNION { Range(tickets[ticketIndex(tickets, allDecisions[n].id)].recordIds) :
              n \in {k \in DOMAIN allDecisions :
                        /\ allDecisions[k].decision = "reject"
                        /\ ticketIndex(tickets, allDecisions[k].id) > 0} }

\* records.filter(r => !r._needsReview || !rejectedIds.has(r._id))
keptRecords(recs, rejected) ==
    SelectSeq(recs, LAMBDA r : ~r["_needsReview"] \/ r["_id"] \notin rejected)

\* a filter that keeps a rejected record for which a fix was approved
approvedKept(recs, tickets, allDecisions) ==
    fixedBy(keptRecords(recs, rejectedIds(tickets, allDecisions)
                                  \ DOMAIN approvedFixes(tickets, allDecisions, Len(allDecisions))),
            approvedFixes(tickets, allDecisions, Len(allDecisions)))

\* the records handleImportFinalise hands to transitionToConsistency
importFixedRecords(recs, tickets, allDecisions) ==
    fixedBy(keptRecords(recs, rejectedIds(tickets, allDecisions)),
            approvedFixes(tickets, allDecisions, Len(allDecisions)))

\* fixes taken from every decided ticket, whatever the decision
anyDecisionFixes(fixes, ticket, decs, d) ==
    IF d = 0 THEN fixes ELSE approveFixes(fixes, ticket, decs[d])

\* the fixes of a ticket whose decision is entry number d (0: undefined)
decidedFixes(fixes, ticket, decs, d) ==
    IF d = 0 THEN fixes
    ELSE IF decs[d].decision # "approve" THEN fixes
    ELSE approveFixes(fixes, ticket, decs[d])

\* fixes of applyConsistencyFixes after the first n tickets
RECURSIVE consistencyFixes(_, _, _)
consistencyFixes(tickets, decs, n) ==
    IF n = 0 THEN <<>>
    ELSE decidedFixes(consistencyFixes(tickets, decs, n - 1), tickets[n], decs,
                      decisionIndex(decs, tickets[n].id))

applyConsistencyFixes(recs, tickets, decs) ==
    fixedBy(recs, consistencyFixes(tickets, decs, Len(tickets)))

\* the initial fieldValues of a TicketCard whose first affected record is
\* representative
initialValues(ticket, representative) ==
    [f \in Range(RECORD_FIELDS) |->
        IF f = ticket.field /\ ticket.method # "validation"
        THEN ticket.suggestedValue
        ELSE IF f = "Result" THEN String(representative[f])
        ELSE representative[f]]

fieldValuesInit(ticket, affected) ==
    IF affected = <<>> THEN <<>> ELSE initialValues(ticket, affected[1])

\* records.filter(r => current.recordIds.includes(r._id))
affectedRecords(recs, ticket) ==
    SelectSeq(recs, LAMBDA r : r["_id"] \in Range(ticket.recordIds))
-----------------------------------------------------------------------------
(* Review: the TicketReview and ReviewModule handlers                      *)

\* a batch approval that starts after the current ticket: tickets.slice(currentIdx + 1)
RECURSIVE approveFollowing(_, _, _)
approveFollowing(tickets, bulk, idx) ==
    IF idx + 1 >= Len(tickets) THEN bulk
    ELSE approveFollowing(
             tickets,
             setDecision(bulk, DecisionEntry(tickets[idx + 2].id, "approve",
                                             tickets[idx + 2].suggestedValue, NoEdits)),
             idx + 1)

\* handleBatchApprove: bulk after the forEach over tickets.slice(currentIdx)
RECURSIVE handleBatchApprove(_, _, _)
handleBatchApprove(tickets, bulk, idx) ==
    IF idx >= Len(tickets) THEN bulk
    ELSE handleBatchApprove(
             tickets,
             setDecision(bulk, DecisionEntry(tickets[idx + 1].id, "approve",
                                             tickets[idx + 1].suggestedValue, NoEdits)),
             idx + 1)

\* handleBatchReject: bulk after the forEach over tickets.slice(currentIdx)
RECURSIVE handleBatchReject(_, _, _)
handleBatchReject(tickets, bulk, idx) ==
    IF idx >= Len(tickets) THEN bulk
    ELSE handleBatchReject(
             tickets,
             setDecision(bulk, DecisionEntry(tickets[idx + 1].id, "reject", <<>>, NoEdits)),
             idx + 1)

\* updateField applied for every edit the user makes in the form
updateFields(fieldValues, edits) ==
    [f \in DOMAIN fieldValues \cup {e[1] : e \in edits} |->
        IF \E e \in edits : e[1] = f
        THEN (CHOOSE e \in edits : e[1] = f)[2]
        ELSE fieldValues[f]]

\* fieldValues[ticket.field] ?? ticket.suggestedValue
issueValue(ticket, fieldValues) ==
    IF ticket.field \in DOMAIN fieldValues THEN fieldValues[ticket.field]
    ELSE ticket.suggestedValue

\* the props TicketReview is rendered with in the current phase
tickets      == IF phase = "consistency" THEN consistencyTickets ELSE importTickets
shownRecords == IF phase = "consistency" THEN intermediateRecords ELSE records

\* ReviewModule is on screen
mounted == reviewOp.op # "none" /\ ~completed

\* a TicketReview is on screen
reviewing == mounted /\ (phase = "consistency" \/ importTickets # <<>>)

hasCurrent == currentIdx < Len(tickets)
current    == tickets[currentIdx + 1]
isLast     == currentIdx = Len(tickets) - 1
remaining  == Len(tickets) - Len(decisions)

NoTicket == <<>>

Op(name, id) ==
    [op |-> name, phase |-> phase, idx |-> currentIdx, ticket |-> id, before |-> decisions]

\* the onComplete prop: the records are handed to the caller, which leaves the review step
onComplete(recs) ==
    /\ finalRecords' = recs
    /\ completed' = TRUE

\* transitionToConsistency once autoFixed and cTickets are computed
consistencyStep(fixedAges, cTickets) ==
    /\ autoFixed' = fixedAges
    /\ IF cTickets = <<>>
       THEN /\ onComplete(fixedAges)
            /\ UNCHANGED <<intermediateRecords, consistencyTickets, phase>>
       ELSE /\ intermediateRecords' = fixedAges
            /\ consistencyTickets' = cTickets
            /\ phase' = "consistency"
            /\ UNCHANGED <<finalRecords, completed>>

consistencyOf(fixedAges) == consistencyStep(fixedAges, buildConsistencyTickets(fixedAges))

\* a transition that builds the consistency tickets from the records as they
\* stand, without the auto-resolution
transitionUnresolved(recs) == consistencyOf(recs)

transitionToConsistency(recs) == consistencyOf(Array(autoFixAgeClasses(recs)))

\* the end of handleImportFinalise, fixed being its fixedRecords
importStep(fixed) ==
    /\ fixedRecords' = fixed
    /\ transitionToConsistency(fixed)

handleImportFinalise(allDecisions) ==
    importStep(Array(importFixedRecords(records, importTickets, allDecisions)))

handleConsistencyFinalise(allDecisions) ==
    /\ onComplete(applyConsistencyFixes(intermediateRecords, consistencyTickets, allDecisions))
    /\ UNCHANGED <<intermediateRecords, consistencyTickets, phase, fixedRecords, autoFixed>>

\* the onFinalise prop of the TicketReview on screen
onFinalise(allDecisions) ==
    /\ finalised' = Append(finalised, [phase |-> phase, decisions |-> allDecisions])
    /\ IF phase = "import"
       THEN handleImportFinalise(allDecisions)
       ELSE handleConsistencyFinalise(allDecisions)

\* setDecisions(next) and what follows it in applyDecision
decided(next) ==
    /\ decisions' = next
    /\ IF ~isLast
       THEN /\ currentIdx' = currentIdx + 1
            /\ UNCHANGED <<phase, intermediateRecords, consistencyTickets, finalised,
                           fixedRecords, autoFixed, finalRecords, completed>>
       ELSE /\ onFinalise(next)
            /\ UNCHANGED currentIdx

\* applyDecision(decision, resolvedValue, fieldEdits)
applyDecision(entry) == decided(setDecision(decisions, entry))

\* setDecisions(bulk); onFinalise(bulk)
batchDecided(bulk) ==
    /\ decisions' = bulk
    /\ onFinalise(bulk)
-----------------------------------------------------------------------------
(* Store: bounds and inputs                                                *)

MaxUserClubs == 2
MaxListeners == 2

Observers == {"obs1", "obs2"}

ABC == <<"A","B","C">>

\* code texts a caller may pass to addClub / removeClub
CodeInputs ==
    { <<>>, <<" ">>, ABC, <<"a","b","c">>, <<" ","a","B","c"," ">>,
      SAG, <<"s","a","g">>, TVK, <<"t","v","k">> }

NameInputs == { <<>>, <<" ">>, <<"A","b","c"," ">> }

\* lists a session of build b (its shipped list) can have saved: the shipped
\* entries followed by clubs added through addClub
RECURSIVE AddedBy(_, _)
AddedBy(shipped, n) ==
    IF n = 0 THEN {shipped}
    ELSE LET prev == AddedBy(shipped, n - 1)
         IN  prev \cup { addClub(l, code, name).clubs :
                           l \in prev, code \in {ABC, TVK}, name \in {TartuVibuklubi} }

StoredByEarlierSession ==
    {NoRaw, Corrupt}
      \cup { Json(l) : l \in AddedBy(BUILT_IN_CLUBS, 1) }
      \cup { Json(l) : l \in AddedBy(EARLIER_BUILT_IN_CLUBS, 1) }

-----------------------------------------------------------------------------
(* Store: actions                                                          *)

\* no file has been imported
reviewIdle ==
    /\ records = <<>>
    /\ importTickets = <<>>
    /\ phase = "import"
    /\ intermediateRecords = <<>>
    /\ consistencyTickets = <<>>
    /\ currentIdx = 0
    /\ decisions = <<>>
    /\ reviewOp = [op |-> "none", phase |-> "import", idx |-> 0,
                   ticket |-> NoTicket, before |-> <<>>]
    /\ finalised = <<>>
    /\ fixedRecords = <<>>
    /\ autoFixed = <<>>
    /\ finalRecords = <<>>
    /\ completed = FALSE

\* no function of the parser is being exercised on its own
NoArgs == [kind |-> "none"]
NoCall  == [fn |-> "none"]

callIdle == args = NoArgs /\ call = NoCall

\* the application as it starts: const [step, ...] = useState('import'), no records
appIdle == step = "import" /\ parsed = <<>> /\ reviewed = <<>>

StoreInit ==
    /\ reviewIdle
    /\ callIdle
    /\ appIdle
    /\ storage \in StoredByEarlierSession
    /\ _clubs = loadFromStorage(storage)
    /\ _listeners = <<>>
    /\ storeOp = [op |-> "load", ret |-> TRUE, notified |-> <<>>]

\* the page is loaded again: the module is evaluated afresh
Load ==
    /\ _clubs' = loadFromStorage(storage)
    /\ _listeners' = <<>>
    /\ storeOp' = [op |-> "load", ret |-> TRUE, notified |-> <<>>]
    /\ UNCHANGED storage
    /\ UNCHANGED <<reviewVars, callVars, appVars>>

Subscribe ==
    \E fn \in Observers :
        /\ Len(_listeners) < MaxListeners
        /\ _listeners' = subscribeToClubs(_listeners, fn)
        /\ storeOp' = [op |-> "subscribe", ret |-> TRUE, arg |-> fn, notified |-> <<>>]
        /\ UNCHANGED <<_clubs, storage>>
        /\ UNCHANGED <<reviewVars, callVars, appVars>>

Unsubscribe ==
    \E fn \in Range(_listeners) :
        /\ _listeners' = unsubscribe(_listeners, fn)
        /\ storeOp' = [op |-> "unsubscribe", ret |-> TRUE, arg |-> fn, notified |-> <<>>]
        /\ UNCHANGED <<_clubs, storage>>
        /\ UNCHANGED <<reviewVars, callVars, appVars>>

AddClub ==
    \E code \in CodeInputs, name \in NameInputs :
        LET r == addClub(_clubs, code, name)
        IN  /\ Cardinality({i \in DOMAIN r.clubs : userAdded(r.clubs[i])}) <= MaxUserClubs
            /\ _clubs' = r.clubs
            /\ storage' = IF r.ret THEN saveToStorage(r.clubs) ELSE storage
            /\ storeOp' = [op |-> "addClub", ret |-> r.ret, arg |-> code, name |-> name,
                           notified |-> IF r.ret THEN notify(_listeners) ELSE <<>>,
                           seen |-> r.clubs]
            /\ UNCHANGED _listeners
            /\ UNCHANGED <<reviewVars, callVars, appVars>>

RemoveClub ==
    \E code \in CodeInputs :
        LET r == removeClub(_clubs, code)
        IN  /\ _clubs' = r.clubs
            /\ storage' = IF r.ret THEN saveToStorage(r.clubs) ELSE storage
            /\ storeOp' = [op |-> "removeClub", ret |-> r.ret, arg |-> code,
                           notified |-> IF r.ret THEN notify(_listeners) ELSE <<>>,
                           seen |-> r.clubs]
            /\ UNCHANGED _listeners
            /\ UNCHANGED <<reviewVars, callVars, appVars>>

ResetClubs ==
    /\ _clubs' = resetClubs
    /\ storage' = saveToStorage(resetClubs)
    /\ storeOp' = [op |-> "resetClubs", ret |-> TRUE, notified |-> notify(_listeners),
                   seen |-> resetClubs]
    /\ UNCHANGED _listeners
    /\ UNCHANGED <<reviewVars, callVars, appVars>>

StoreNext ==
    \/ Load
    \/ Subscribe
    \/ Unsubscribe
    \/ AddClub
    \/ RemoveClub
    \/ ResetClubs

StoreSpec == StoreInit /\ [][StoreNext]_vars

-----------------------------------------------------------------------------
(* Review: bounds and inputs                                               *)

MaxRows  == 2
MaxEdits == 1

RawRow(date, athlete, club, class, ageClass, distance, result) ==
    [Date |-> date, Athlete |-> athlete, Club |-> club, Class |-> class,
     AgeClass |-> ageClass, Distance |-> distance, Result |-> result,
     Competition |-> <<"E","M">>]

\* the rows an imported file is made of, in file order
RawRows ==
    << RawRow(<<"0","1",".","0","5",".","2","0","2","4">>, <<"J","a","a","n"," ","T","a","m","m">>,  <<"T","V","X">>, <<"S","p","o","r","t","v","i","b","u">>,      <<"U","2","1">>, <<"7","0","m">>, <<"3","0","0">>),
       RawRow(<<"0","2",".","0","5",".","2","0","2","4">>, <<"j","a","a","n"," ","t","a","m","m"," ">>, <<"T","V","X">>, <<"P","l","o","k","k","v","i","b","u">>,        <<"U","1","8">>, <<"7","0","m">>, <<"8","0","0">>),
       RawRow(<<"0","2",".","0","5",".","2","0","2","4">>, <<"L","i","i","s","a"," ","K","a","s","k">>, <<>>,    <<"C","o","m","p","o","u","n","d"," ","W","o","m","e","n">>, <<"+","5","0">>, <<"1","8","m">>, <<"2","5","0">>),
       RawRow(<<"0","3",".","0","5",".","2","0","2","4">>, <<"L","i","i","s","a"," ","K","a","s","k">>, <<"S","A","G">>, <<"C","o","m","p","o","u","n","d"," ","W","o","m","e","n">>, <<>>,    <<"1","8","m">>, <<"2","5","0">>),
       RawRow(<<"0","4",".","0","5",".","2","0","2","4">>, <<"L","i","i","s","a"," ","K","a","s","k">>, <<"S","A","G">>, <<"R","e","c","u","r","v","e">>,        <<"+","6","0">>, <<"1","8","m">>, <<"2","5","0">>),
       RawRow(<<"2","0","2","5","-","0","5","-","0","4">>, <<"L","i","i","s","a"," ","K","a","s","k">>, <<"S","A","G">>, <<"R","e","c","u","r","v","e"," ","W","o","m","e","n">>,  <<"U","1","5">>, <<"1","8","m">>, <<"2","5","0">>) >>

\* the rows numbered in S, in file order
RECURSIVE pickRows(_, _)
pickRows(S, i) ==
    IF i > Len(RawRows) THEN <<>>
    ELSE (IF i \in S THEN <<RawRows[i]>> ELSE <<>>) \o pickRows(S, i + 1)

Batches ==
    { pickRows(S, 1) : S \in { T \in SUBSET DOMAIN RawRows :
                                  Cardinality(T) >= 1 /\ Cardinality(T) <= MaxRows } }

\* what the user may type into a field of the ticket form
EditInputs ==
    { <<"Club", SAG>>, <<"Gender", Men>>, <<"Age Class", P70>> }

Edits ==
    { E \in SUBSET EditInputs :
        /\ Cardinality(E) <= MaxEdits
        /\ \A a, b \in E : a[1] = b[1] => a = b }

-----------------------------------------------------------------------------
(* Review: actions                                                         *)

\* the review runs on the shipped club list of a first visit
storeFresh ==
    /\ storage = NoRaw
    /\ _clubs = loadFromStorage(NoRaw)
    /\ _listeners = <<>>
    /\ storeOp = [op |-> "load", ret |-> TRUE, notified |-> <<>>]

Init == storeFresh /\ reviewIdle /\ callIdle /\ appIdle

\* ReviewModule is mounted with the records of ImportModule.parseFiles
mount(recs) ==
    /\ records' = recs
    /\ importTickets' = buildTickets(recs)
    /\ reviewOp' = Op("mount", NoTicket)
    /\ UNCHANGED <<phase, intermediateRecords, consistencyTickets, currentIdx, decisions,
                   finalised, fixedRecords, autoFixed, finalRecords, completed>>

\* a file is imported and the review step entered
Import ==
    /\ reviewOp.op = "none"
    /\ \E rows \in Batches :
          mount(Array(parseFiles(<<[name |-> <<"a",".","c","s","v">>, rows |-> rows]>>, _clubs)))
    /\ UNCHANGED <<storeVars, callVars, appVars>>

\* onApprove(issueValue, fieldValues)
approveWith(fieldValues) ==
    applyDecision(DecisionEntry(current.id, "approve", issueValue(current, fieldValues),
                                fieldValues))

\* Enter or the approve button, after the user's edits to the form
Approve ==
    /\ reviewing /\ hasCurrent
    /\ \E edits \in Edits :
          approveWith(updateFields(
              fieldValuesInit(current, affectedRecords(shownRecords, current)), edits))
    /\ reviewOp' = Op("approve", current.id)
    /\ UNCHANGED <<records, importTickets>>
    /\ UNCHANGED <<storeVars, callVars, appVars>>

\* Delete, Backspace or the reject button
Reject ==
    /\ reviewing /\ hasCurrent
    /\ applyDecision(DecisionEntry(current.id, "reject", <<>>, NoEdits))
    /\ reviewOp' = Op("reject", current.id)
    /\ UNCHANGED <<records, importTickets>>
    /\ UNCHANGED <<storeVars, callVars, appVars>>

\* Escape: the ticket is passed over without a decision
Skip ==
    /\ reviewing /\ hasCurrent /\ ~isLast
    /\ currentIdx' = currentIdx + 1
    /\ reviewOp' = Op("skip", current.id)
    /\ UNCHANGED <<records, importTickets, phase, intermediateRecords, consistencyTickets,
                   decisions, finalised, fixedRecords, autoFixed, finalRecords, completed>>
    /\ UNCHANGED <<storeVars, callVars, appVars>>

BatchApprove ==
    /\ reviewing /\ remaining > 1
    /\ batchDecided(handleBatchApprove(tickets, decisions, currentIdx))
    /\ reviewOp' = Op("batchApprove", NoTicket)
    /\ UNCHANGED <<records, importTickets, currentIdx>>
    /\ UNCHANGED <<storeVars, callVars, appVars>>

BatchReject ==
    /\ reviewing /\ remaining > 1
    /\ batchDecided(handleBatchReject(tickets, decisions, currentIdx))
    /\ reviewOp' = Op("batchReject", NoTicket)
    /\ UNCHANGED <<records, importTickets, currentIdx>>
    /\ UNCHANGED <<storeVars, callVars, appVars>>

\* the button shown when no record was flagged
ContinueToConsistency ==
    /\ mounted /\ phase = "import" /\ importTickets = <<>>
    /\ transitionToConsistency(records)
    /\ fixedRecords' = records
    /\ reviewOp' = Op("continue", NoTicket)
    /\ UNCHANGED <<records, importTickets, currentIdx, decisions, finalised>>
    /\ UNCHANGED <<storeVars, callVars, appVars>>

Next ==
    \/ Import
    \/ Approve
    \/ Reject
    \/ Skip
    \/ BatchApprove
    \/ BatchReject
    \/ ContinueToConsistency

Spec == Init /\ [][Next]_vars


-----------------------------------------------------------------------------
(* Properties of the review                                                *)

\* the last operation finalised the import phase, with the decision map
\* importDecisions
importFinalised ==
    finalised # <<>> /\ finalised[1].phase = "import" /\ reviewOp.phase = "import"
importDecisions == finalised[1].decisions

\* the last operation handed the records to the age-class auto-resolution
transitioned == reviewOp.phase = "import" /\ (phase = "consistency" \/ completed)

\* the consistency phase was finalised with the decision map consistencyDecisions
consistencyFinalised == completed /\ phase = "consistency" /\ finalised # <<>>
consistencyDecisions == finalised[Len(finalised)].decisions

\* a field of a record as the text a form shows
fieldText(r, f) == IF f = "Result" THEN String(r[f]) ELSE r[f]

\* decs holds the given decision for the ticket
decidedAs(decs, ticket, decision) ==
    \E k \in DOMAIN decs : decs[k].id = ticket.id /\ decs[k].decision = decision

\* the value decs holds for the ticket
valueFor(decs, ticket) ==
    decs[CHOOSE k \in DOMAIN decs : decs[k].id = ticket.id].value

affects(ticket, r) == r["_id"] \in Range(ticket.recordIds)

\* the imported record a fixed record stems from
imported(r) == records[CHOOSE i \in DOMAIN records : records[i]["_id"] = r["_id"]]

\* C1: after the import phase is finalised, every record affected by an
\* approved import ticket holds the approved value in the ticket's field, and a
\* record that no approved ticket affects is as it was imported
ApprovedValueOnEveryAffectedRecord ==
    importFinalised =>
        /\ \A j \in DOMAIN importTickets :
              decidedAs(importDecisions, importTickets[j], "approve") =>
                  \A i \in DOMAIN fixedRecords :
                      affects(importTickets[j], fixedRecords[i]) =>
                          fieldText(fixedRecords[i], importTickets[j].field)
                              = valueFor(importDecisions, importTickets[j])
        /\ \A i \in DOMAIN fixedRecords :
              (\A j \in DOMAIN importTickets :
                  decidedAs(importDecisions, importTickets[j], "approve")
                      => ~affects(importTickets[j], fixedRecords[i]))
              => fixedRecords[i] = imported(fixedRecords[i])

\* the ids of the records of the rejected import tickets
RejectedImportIds ==
    UNION { Range(importTickets[j].recordIds) :
              j \in {t \in DOMAIN importTickets :
                        decidedAs(importDecisions, importTickets[t], "reject")} }

\* C2: after the import phase is finalised, the records handed on are the
\* imported records in no rejected import ticket, in their order: none of a
\* rejected ticket is present and every other one is
RejectedImportRecordsRemoved ==
    importFinalised =>
        /\ column(fixedRecords, "_id")
              = SelectSeq(column(records, "_id"), LAMBDA id : id \notin RejectedImportIds)
        /\ column(autoFixed, "_id") = column(fixedRecords, "_id")
        /\ phase = "consistency"
              => column(intermediateRecords, "_id") = column(fixedRecords, "_id")

\* a finalised import phase that removed a record and kept another
SomeRemovedSomeKept ==
    /\ importFinalised
    /\ fixedRecords # <<>>
    /\ Len(fixedRecords) < Len(records)
    /\ \E j \in DOMAIN importTickets :
          decidedAs(importDecisions, importTickets[j], "reject")

EditedThrough(r, f, val) ==
    \E j \in DOMAIN consistencyTickets : \E k \in DOMAIN consistencyDecisions :
        /\ consistencyDecisions[k].id = consistencyTickets[j].id
        /\ consistencyDecisions[k].decision = "approve"
        /\ consistencyTickets[j].field # f
        /\ consistencyTickets[j].recordIds[1] = r["_id"]
        /\ f \in DOMAIN consistencyDecisions[k].fieldEdits
        /\ consistencyDecisions[k].fieldEdits[f] = val

SeniorLadder == <<P50, P60, P70>>
YouthLadder  == <<U21, U18, U15, U13>>

\* the age classes, among the records handed to the auto-resolution, of the
\* records with the normalized athlete name and the competition year
classesOf(name, year) ==
    { fixedRecords[i]["Age Class"] :
        i \in {k \in DOMAIN fixedRecords :
                  /\ toLowerCase(trim(fixedRecords[k]["Athlete"])) = name
                  /\ extractYear(fixedRecords[k]["Date"]) = year} }

\* the age classes of the group of the record r
groupClasses(r) == classesOf(toLowerCase(trim(r["Athlete"])), extractYear(r["Date"]))

\* the class of the ladder that comes last among the classes present
lastPresent(ladder, classes) ==
    ladder[CHOOSE n \in DOMAIN ladder :
              /\ ladder[n] \in classes
              /\ \A m \in DOMAIN ladder : ladder[m] \in classes => m <= n]

pureLadder(ladder, classes) == Cardinality(classes) > 1 /\ classes \subseteq Range(ladder)

\* a record of a pure group holds the last class of the ladder present
resolvedOn(ladder, classes, resolved) ==
    pureLadder(ladder, classes) => resolved["Age Class"] = lastPresent(ladder, classes)

resolvedOnLadders(classes, resolved) ==
    /\ resolvedOn(SeniorLadder, classes, resolved)
    /\ resolvedOn(YouthLadder, classes, resolved)

ambiguous(classes) ==
    /\ Cardinality(classes) > 1
    /\ ~pureLadder(SeniorLadder, classes)
    /\ ~pureLadder(YouthLadder, classes)

\* C5: in a group of one athlete and year whose age classes mix the two
\* ladders or include a class on neither, the auto-resolution changes no
\* record's age class
AmbiguousMixUntouched ==
    transitioned =>
        \A i \in DOMAIN fixedRecords :
            (trim(fixedRecords[i]["Athlete"]) # <<>> /\ ambiguous(groupClasses(fixedRecords[i])))
            => autoFixed[i]["Age Class"] = fixedRecords[i]["Age Class"]

\* the record needs review and carries a correction of the field with the original text
carries(r, field, original) ==
    /\ r["_needsReview"]
    /\ \E n \in DOMAIN r["_corrections"] :
          /\ r["_corrections"][n].field = field
          /\ r["_corrections"][n].original = original

\* the (field, original text) pairs among the corrections of the records needing review
CorrectionPairs ==
    UNION { { <<records[i]["_corrections"][n].field, records[i]["_corrections"][n].original>> :
                n \in DOMAIN records[i]["_corrections"] } :
            i \in {k \in DOMAIN records : records[k]["_needsReview"]} }

\* the ticket stands for a flagged record without corrections
synthetic(ticket) ==
    /\ ticket.field = "Club"
    /\ \E i \in DOMAIN records :
          /\ records[i]["_needsReview"]
          /\ records[i]["_corrections"] = <<>>
          /\ records[i]["Club"] = ticket.originalValue

\* C6: when the review is mounted, for every (field, original text) pair among the corrections of the
\* records needing review there is exactly one import ticket, its record ids
\* are the ids of the records carrying the pair, in their order, and every
\* other import ticket is the synthetic one of a record without corrections
OneTicketPerPair ==
    reviewOp.op = "mount" =>
        /\ \A p \in CorrectionPairs :
              /\ Cardinality({j \in DOMAIN importTickets :
                                 /\ importTickets[j].field = p[1]
                                 /\ importTickets[j].originalValue = p[2]}) = 1
              /\ \A j \in DOMAIN importTickets :
                    (importTickets[j].field = p[1] /\ importTickets[j].originalValue = p[2])
                    => importTickets[j].recordIds
                          = column(SelectSeq(records, LAMBDA r : carries(r, p[1], p[2])), "_id")
        /\ \A j \in DOMAIN importTickets :
              \/ <<importTickets[j].field, importTickets[j].originalValue>> \in CorrectionPairs
              \/ synthetic(importTickets[j])

\* a ticket shared by two records beside two tickets of one field
SharedAndDistinctDefects ==
    /\ reviewOp.op = "mount"
    /\ \E j \in DOMAIN importTickets : Len(importTickets[j].recordIds) = 2
    /\ \E j, k \in DOMAIN importTickets :
          /\ j # k
          /\ importTickets[j].field = importTickets[k].field

\* C7: when the review is mounted, every record needing review is among the record ids of an import
\* ticket, and one without corrections is in a ticket of field Club whose
\* original value is its club
NoFlaggedRecordSkipped ==
    reviewOp.op = "mount" =>
        \A i \in DOMAIN records :
            records[i]["_needsReview"] =>
                /\ \E j \in DOMAIN importTickets : affects(importTickets[j], records[i])
                /\ records[i]["_corrections"] = <<>> =>
                      \E j \in DOMAIN importTickets :
                          /\ affects(importTickets[j], records[i])
                          /\ importTickets[j].field = "Club"
                          /\ importTickets[j].originalValue = records[i]["Club"]

\* a flagged record without corrections beside a flagged record with one
FlaggedWithoutCorrection ==
    /\ reviewOp.op = "mount"
    /\ \E i \in DOMAIN records :
          records[i]["_needsReview"] /\ records[i]["_corrections"] = <<>>
    /\ \E i \in DOMAIN records :
          records[i]["_needsReview"] /\ records[i]["_corrections"] # <<>>

\* the tickets of the phase the last batch operation ran in
batchTickets ==
    IF reviewOp.phase = "consistency" THEN consistencyTickets ELSE importTickets

isBatch == reviewOp.op \in {"batchApprove", "batchReject"}

sameEntry(d, e) ==
    /\ d.id = e.id
    /\ d.decision = e.decision
    /\ d.value = e.value
    /\ DOMAIN d.fieldEdits = DOMAIN e.fieldEdits
    /\ \A f \in DOMAIN d.fieldEdits : d.fieldEdits[f] = e.fieldEdits[f]

\* C8: a batch approval (rejection) started at ticket i leaves, for every
\* ticket at position i or later, an approve decision with the ticket's
\* suggested value (a reject decision with the blank value) and no field edits,
\* keeps the decisions recorded for the other tickets as they were, decides no
\* further ticket, and finalises the phase with exactly that decision map
BatchDecidesFromCurrent ==
    isBatch =>
        /\ \A j \in (reviewOp.idx + 1)..Len(batchTickets) :
              \E k \in DOMAIN decisions :
                  /\ decisions[k].id = batchTickets[j].id
                  /\ decisions[k].decision
                        = (IF reviewOp.op = "batchApprove" THEN "approve" ELSE "reject")
                  /\ decisions[k].value
                        = (IF reviewOp.op = "batchApprove"
                           THEN batchTickets[j].suggestedValue ELSE <<>>)
                  /\ DOMAIN decisions[k].fieldEdits = {}
        /\ \A k \in DOMAIN reviewOp.before :
              (\A j \in (reviewOp.idx + 1)..Len(batchTickets) :
                  batchTickets[j].id # reviewOp.before[k].id)
              => \E n \in DOMAIN decisions : sameEntry(decisions[n], reviewOp.before[k])
        /\ \A k \in DOMAIN decisions :
              \/ \E n \in DOMAIN reviewOp.before : reviewOp.before[n].id = decisions[k].id
              \/ \E j \in (reviewOp.idx + 1)..Len(batchTickets) :
                    batchTickets[j].id = decisions[k].id
        /\ \A k, n \in DOMAIN decisions : decisions[k].id = decisions[n].id => k = n
        /\ finalised # <<>>
        /\ finalised[Len(finalised)].phase = reviewOp.phase
        /\ Len(finalised[Len(finalised)].decisions) = Len(decisions)
        /\ \A k \in DOMAIN decisions :
              sameEntry(finalised[Len(finalised)].decisions[k], decisions[k])

\* a batch approval started past the first ticket, after a decision was
\* recorded and with several tickets left
BatchApprovalMidway ==
    /\ reviewOp.op = "batchApprove"
    /\ reviewOp.idx > 0
    /\ reviewOp.idx < Len(batchTickets)
    /\ reviewOp.before # <<>>
    /\ Len(decisions) > Len(reviewOp.before) + 1

-----------------------------------------------------------------------------
(* Properties of the club store                                            *)

\* C9: no two entries of the club list have codes that are equal when
\* compared without regard to case
ClubCodesUnique ==
    \A i, j \in DOMAIN _clubs :
        toLowerCase(_clubs[i].code) = toLowerCase(_clubs[j].code) => i = j

\* a club was added under a code typed in another case than it is stored in
AddedInOtherCase ==
    /\ storeOp.op = "addClub"
    /\ storeOp.ret
    /\ trim(storeOp.arg) # toUpperCase(trim(storeOp.arg))
    /\ \E i \in DOMAIN _clubs : _clubs[i].code = toUpperCase(trim(storeOp.arg))

\* C10: removeClub of the code of a built-in club returns false and
\* notifies no observer, and every built-in code is in the club list
BuiltInsCannotBeRemoved ==
    /\ (/\ storeOp.op = "removeClub"
        /\ \E b \in DOMAIN BUILT_IN_CLUBS : BUILT_IN_CLUBS[b].code = storeOp.arg)
       => (~storeOp.ret /\ storeOp.notified = <<>>)
    /\ \A b \in DOMAIN BUILT_IN_CLUBS :
          \E i \in DOMAIN _clubs : _clubs[i].code = BUILT_IN_CLUBS[b].code

-----------------------------------------------------------------------------
(* The steps of the application (App)                                      *)

AppSteps == {"import", "review", "database", "logs", "clubs"}

\* StepNav: the steps whose button is disabled
locked(s) ==
    \/ s = "review" /\ parsed = <<>>
    \/ s \in {"database", "logs"} /\ reviewed = <<>>

\* a button of StepNav that is not disabled: onNavigate(step.id)
Navigate ==
    /\ \E s \in AppSteps : ~locked(s) /\ s # step /\ step' = s
    /\ UNCHANGED <<parsed, reviewed>>
    /\ UNCHANGED <<storeVars, reviewVars, callVars>>

\* handleParsed(recs)
handleParsed(recs) ==
    /\ parsed' = recs
    /\ IF \E i \in DOMAIN recs : recs[i]["_needsReview"]
       THEN step' = "review" /\ UNCHANGED reviewed
       ELSE reviewed' = recs /\ step' = "database"

\* the files the import step is given: rows that need no fuzzy club match
AppBatches ==
    { pickRows(S, 1) : S \in { T \in SUBSET (DOMAIN RawRows \ {1, 2}) :
                                  Cardinality(T) >= 1 /\ Cardinality(T) <= MaxRows } }

\* ImportModule calls onParsed with the records of the selected file
HandleParsed ==
    /\ step = "import"
    /\ \E rows \in AppBatches :
          handleParsed(Array(parseFiles(<<[name |-> <<"a",".","c","s","v">>, rows |-> rows]>>, _clubs)))
    /\ UNCHANGED <<storeVars, reviewVars, callVars>>

\* handleReviewed(recs)
handleReviewed(recs) ==
    /\ reviewed' = recs
    /\ step' = "database"
    /\ UNCHANGED parsed

\* what transitionToConsistency hands to onComplete when no consistency
\* ticket arises, or when every consistency ticket is rejected
unchangedByConsistency(recs) == Array(autoFixAgeClasses(recs))

\* the records ReviewModule calls onComplete with when the reviewer rejects
\* every import ticket and no consistency ticket arises for what is left, and
\* when nothing was flagged and every consistency ticket (if any) is rejected
ReviewOutcomes(recs) ==
    IF buildTickets(recs) = <<>>
    THEN { unchangedByConsistency(recs) }
    ELSE { unchangedByConsistency(fixed) :
             fixed \in { f \in { Array(importFixedRecords(recs, buildTickets(recs),
                                     handleBatchReject(buildTickets(recs), <<>>, 0))) } :
                           buildConsistencyTickets(unchangedByConsistency(f)) = <<>> } }

\* ReviewModule calls onComplete
HandleReviewed ==
    /\ step = "review"
    /\ \E recs \in ReviewOutcomes(parsed) : handleReviewed(recs)
    /\ UNCHANGED <<storeVars, reviewVars, callVars>>

AppInit == storeFresh /\ reviewIdle /\ callIdle /\ appIdle

AppNext ==
    \/ HandleParsed
    \/ HandleReviewed
    \/ Navigate

AppSpec == AppInit /\ [][AppNext]_vars

-----------------------------------------------------------------------------
(* The parser's functions called on their own                              *)

\* distance texts: the forms parseDistanceCount tells apart, and texts that
\* are none of them
DistanceInputs ==
    { <<>>, <<"7","0","m">>, <<" ","1","8","m"," ">>, <<"7","0","M">>, <<"7","0">>, <<"a","b","c">>, <<"m">>,
      <<"2","x","7","0","m">>, <<"2"," ","x"," ","7","0","m">>, <<"2","X","7","0","M">>, <<"2","×","1","8","m">>, <<"1","2","x","1","8","m">>, <<"0","x","7","0","m">>, <<"x","7","0","m">>, <<"2","x","7","0">>,
      <<"9","0","m","+","7","0","m","+","5","0","m","+","3","0","m">>, <<"2","x","9","0","m","+","2","x","7","0","m">>, <<"7","0","m"," ","+"," ","5","0","m">>, <<"2","x","7","0","m","+","5","0","m">>,
      <<"7","0","m","+","5","0">>, <<"7","0","m","+","5","0","m","+","3","0">>, <<"7","0","m","+","a","b","c">>, <<"7","0","m","+">>, <<"+">>, <<"0","x","7","0","m","+","0","x","5","0","m">>, <<"a","b","c","+","d","e","f">> }

\* scores to validate: around zero and around the maxima of one to four rounds
ScoreInputs == { 0 - 1, 0, 1, 360, 361, 720, 721, 1080, 1081, 1440, 1441 }

ScoreInit ==
    \E d \in DistanceInputs, s \in ScoreInputs :
        args = [kind |-> "score", distance |-> d, score |-> s]

ParseDistanceCount ==
    /\ args.kind = "score"
    /\ call' = [fn |-> "parseDistanceCount", distance |-> args.distance,
                ret |-> parseDistanceCount(args.distance)]
    /\ UNCHANGED <<storeVars, reviewVars, args, appVars>>

GetMaxScore ==
    /\ args.kind = "score"
    /\ call' = [fn |-> "getMaxScore", distance |-> args.distance,
                ret |-> getMaxScore(args.distance)]
    /\ UNCHANGED <<storeVars, reviewVars, args, appVars>>

ValidateScore ==
    /\ args.kind = "score"
    /\ call' = [fn |-> "validateScore", score |-> args.score, distance |-> args.distance,
                ret |-> validateScore(args.score, args.distance)]
    /\ UNCHANGED <<storeVars, reviewVars, args, appVars>>

\* rows of a file: the club, distance and result columns vary; the club
\* texts that need the fuzzy search go with two results only
RowClubs == { SAG, <<"s","a","g">>, <<>> }

FuzzyRowClubs == { <<"T","V","X">>, <<"S","a","g","i","t","t","a","r","i","u">> }

RowDistances == { <<"7","0","m">>, <<"2","x","7","0","m">>, <<"1","8">>, <<"0","x","7","0","m">>, <<>> }

RowResults ==
    { <<"3","0","0">>, <<"3","6","0">>, <<"3","6","1">>, <<"7","0","0">>, <<"7","2","0">>, <<"7","2","1">>, <<"8","0","0">>, <<"0">>, <<"-","5">>, <<>>, <<"a","b","c">> }

ResultRow(club, distance, result) ==
    RawRow(<<"0","1",".","0","5",".","2","0","2","4">>, <<"J","a","a","n"," ","T","a","m","m">>, club, <<"S","p","o","r","t","v","i","b","u"," ","M","e","h","e","d">>, <<>>, distance, result)

RowInputs ==
    { ResultRow(club, distance, result) :
        club \in RowClubs, distance \in RowDistances, result \in RowResults }
      \cup { ResultRow(club, <<"7","0","m">>, result) :
                club \in FuzzyRowClubs, result \in {<<"3","0","0">>, <<"8","0","0">>} }

RowInit == \E row \in RowInputs : args = [kind |-> "row", row |-> row]

\* the body of data.map for the first row of a file, against the live club list
ParseRow ==
    /\ args.kind = "row"
    /\ call' = [fn |-> "parseRow", row |-> args.row,
                ret |-> parseRow(args.row, 0, <<"a",".","c","s","v">>, _clubs)]
    /\ UNCHANGED <<storeVars, reviewVars, args, appVars>>

\* club texts: codes of the list in several letter cases, names, near misses
ClubInputs ==
    { <<>>, SAG, <<"s","a","g">>, <<"S","a","g">>, <<" ","s","a","g"," ">>, NS, <<"n","s">>, TVK, <<"t","v","k">>, <<"A","R","C","H","E","R","S">>, <<"a","r","c","h","e","r","s">>,
      Sagittarius, <<"s","a","g","i","t","t","a","r","i","u","s">>, <<"S","A","G"," ","T","a","l","l","i","n","n">>, <<"T","V","X">> }

ClubInit == \E text \in ClubInputs : args = [kind |-> "club", text |-> text]

MatchClub ==
    /\ args.kind = "club"
    /\ call' = [fn |-> "matchClub", text |-> args.text, ret |-> matchClub(args.text, _clubs)]
    /\ UNCHANGED <<storeVars, reviewVars, args, appVars>>

\* batches of files: up to MaxFiles files of up to MaxFileRows rows each
MaxFiles    == 2
MaxFileRows == 2

FileNames == << <<"a",".","c","s","v">>, <<"b",".","c","s","v">>, <<"c",".","c","s","v">> >>

FileRows == { RawRows[4], RawRows[6] }

FileRowLists == UNION { [1..n -> FileRows] : n \in 0..MaxFileRows }

FileBatches ==
    UNION { { [i \in 1..k |-> [name |-> FileNames[i], rows |-> rows[i]]] :
                rows \in [1..k -> FileRowLists] } : k \in 1..MaxFiles }

FilesInit == \E files \in FileBatches : args = [kind |-> "files", files |-> files]

\* the parse button of ImportModule, with the selected files
ParseFiles ==
    /\ args.kind = "files"
    /\ call' = [fn |-> "parseFiles", files |-> args.files,
                ret |-> parseFiles(args.files, _clubs)]
    /\ UNCHANGED <<storeVars, reviewVars, args, appVars>>

\* rows of athletes for the consistency pass: every club is a code of the
\* list and every result valid, so that no row is flagged
AthleteRow(date, athlete, class, ageClass) ==
    RawRow(date, athlete, SAG, class, ageClass, <<"1","8","m">>, <<"2","5","0">>)

AthleteRows ==
    << AthleteRow(<<"0","1",".","0","5",".","2","0","2","4">>, <<"J","a","a","n"," ","T","a","m","m">>,  <<"S","p","o","r","t","v","i","b","u"," ","M","e","h","e","d">>,  <<"U","2","1">>),
       AthleteRow(<<"0","2",".","0","5",".","2","0","2","4">>, <<"j","a","a","n"," ","t","a","m","m">>,  <<"S","p","o","r","t","v","i","b","u"," ","M","e","h","e","d">>,  <<"+","5","0">>),
       AthleteRow(<<"0","3",".","0","5",".","2","0","2","4">>, <<"J","a","a","n"," ","T","a","m","m">>,  <<"P","l","o","k","k","v","i","b","u"," ","N","a","i","s","e","d">>, <<"U","2","1">>),
       AthleteRow(<<"2","0","2","5","-","0","5","-","0","4">>, <<"J","a","a","n"," ","T","a","m","m">>,  <<"S","p","o","r","t","v","i","b","u"," ","M","e","h","e","d">>,  <<"+","6","0">>),
       AthleteRow(<<"0","5",".","0","5",".","2","0","2","4">>, <<"J","a","a","n"," ","T","a","m","m">>,  <<"S","p","o","r","t","v","i","b","u"," ","M","e","h","e","d">>,  <<"U","1","8">>),
       AthleteRow(<<"0","6",".","0","5",".","2","0","2","4">>, <<>>,          <<"S","p","o","r","t","v","i","b","u"," ","M","e","h","e","d">>,  <<"U","2","1">>),
       AthleteRow(<<"0","7",".","0","5",".","2","0","2","4">>, <<>>,          <<"P","l","o","k","k","v","i","b","u"," ","N","a","i","s","e","d">>, <<"+","5","0">>),
       AthleteRow(<<"0","8",".","0","5",".","2","0","2","4">>, <<"L","i","i","s","a"," ","K","a","s","k">>, <<"P","l","o","k","k","v","i","b","u"," ","N","a","i","s","e","d">>, <<"+","5","0">>) >>

MaxAthleteRows == 3

\* the rows numbered in S, in the order of AthleteRows
RECURSIVE pickAthleteRows(_, _)
pickAthleteRows(S, i) ==
    IF i > Len(AthleteRows) THEN <<>>
    ELSE (IF i \in S THEN <<AthleteRows[i]>> ELSE <<>>) \o pickAthleteRows(S, i + 1)

AthleteBatches ==
    { pickAthleteRows(S, 1) : S \in { T \in SUBSET DOMAIN AthleteRows :
                                         Cardinality(T) >= 1 /\ Cardinality(T) <= MaxAthleteRows } }

AthletesInit ==
    /\ _clubs = BUILT_IN_CLUBS
    /\ \E rows \in AthleteBatches : args = [kind |-> "athletes", rows |-> rows]

\* the records of the file as the auto-resolution leaves them
resolvedRecords(rows, clubs) ==
    Array(autoFixAgeClasses(parseFiles(<<[name |-> <<"a",".","c","s","v">>, rows |-> rows]>>, clubs)))

\* transitionToConsistency up to the tickets, for a file without flagged rows
BuildConsistencyTickets ==
    /\ args.kind = "athletes"
    /\ call' = [fn |-> "buildConsistencyTickets",
                recs |-> resolvedRecords(args.rows, _clubs),
                ret |-> buildConsistencyTickets(resolvedRecords(args.rows, _clubs))]
    /\ UNCHANGED <<storeVars, reviewVars, args, appVars>>

\* what the reviewer may leave in the Result field of the form before approving
DecidedTexts ==
    { <<"0">>, <<"0","0">>, <<" ","0"," ">>, <<"3","0","0">>, <<" ","3","0","0"," ">>, <<"7","2","0">>, <<"M","a","x"," ","7","2","0">>, <<>>, <<" ">>, <<"a","b","c">>,
      <<"1","2","a","b","c">>, <<"-","5">> }

DecidedInit ==
    /\ _clubs = BUILT_IN_CLUBS
    /\ \E text \in DecidedTexts : args = [kind |-> "decided", text |-> text]

\* a file of one row whose only defect is a result above the maximum of its
\* distance
overscoredFile(clubs) ==
    parseFiles(<<[name |-> <<"a",".","c","s","v">>,
                  rows |-> <<RawRow(<<"0","1",".","0","5",".","2","0","2","4">>, <<"J","a","a","n"," ","T","a","m","m">>, SAG, <<"R","e","c","u","r","v","e">>, <<>>,
                                    <<"7","0","m">>, <<"8","0","0">>)>>]>>, clubs)

\* the decision map after the Result of the form was set to the text and the
\* only ticket approved
resultApproved(ticket, fieldValues) ==
    <<DecisionEntry(ticket.id, "approve", issueValue(ticket, fieldValues), fieldValues)>>

resultDecision(recs, ticket, text) ==
    resultApproved(ticket,
        updateFields(fieldValuesInit(ticket, affectedRecords(recs, ticket)),
                     {<<"Result", text>>}))

\* the reviewer types the text into the Result field of the score ticket, the
\* only ticket of the file, and approves it: handleImportFinalise up to its
\* fixedRecords
ApproveResult ==
    /\ args.kind = "decided"
    /\ call' = [fn |-> "handleImportFinalise", text |-> args.text,
                recs |-> overscoredFile(_clubs),
                tickets |-> buildTickets(overscoredFile(_clubs)),
                ret |-> Array(importFixedRecords(
                            overscoredFile(_clubs), buildTickets(overscoredFile(_clubs)),
                            resultDecision(overscoredFile(_clubs),
                                           buildTickets(overscoredFile(_clubs))[1],
                                           args.text)))]
    /\ UNCHANGED <<storeVars, reviewVars, args, appVars>>

\* the club list the functions run against: the shipped one, or the shipped
\* one with a club the user added
CallVocabularies ==
    { BUILT_IN_CLUBS, addClub(BUILT_IN_CLUBS, <<"a","r","c","h","e","r","s">>, <<"A","r","c","h","e","r","s"," ","C","l","u","b">>).clubs }

storeHolding(clubs) ==
    /\ _clubs = clubs
    /\ storage = IF clubs = BUILT_IN_CLUBS THEN NoRaw ELSE saveToStorage(clubs)
    /\ _listeners = <<>>
    /\ storeOp = [op |-> "load", ret |-> TRUE, notified |-> <<>>]

CallInit ==
    /\ \E clubs \in CallVocabularies : storeHolding(clubs)
    /\ reviewIdle
    /\ appIdle
    /\ call = NoCall
    /\ \/ ScoreInit
       \/ RowInit
       \/ ClubInit
       \/ FilesInit
       \/ AthletesInit
       \/ DecidedInit

CallNext ==
    \/ ParseDistanceCount
    \/ GetMaxScore
    \/ ValidateScore
    \/ ParseRow
    \/ MatchClub
    \/ ParseFiles
    \/ BuildConsistencyTickets
    \/ ApproveResult

CallSpec == CallInit /\ [][CallNext]_vars

-----------------------------------------------------------------------------
(* Club store: addClub, notification, loading                              *)

\* the step just taken is a call of addClub
addClubCalled == storeOp'.op = "addClub"

sameCode(a, b) == toLowerCase(a) = toLowerCase(b)

\* the call is one the store has to refuse: nothing left of the code or of
\* the name after trimming, or the code is on the list in some letter case
refusable(clubs, code, name) ==
    \/ trim(code) = <<>>
    \/ trim(name) = <<>>
    \/ \E i \in DOMAIN clubs : sameCode(clubs[i].code, trim(code))

mutated ==
    \/ storeOp'.op \in {"addClub", "removeClub"} /\ storeOp'.ret
    \/ storeOp'.op = "resetClubs"

\* C12: change notification is synchronous: every add, remove or reset that
\* mutates the list invokes each observer subscribed at that moment, within
\* the call and with the updated list in place; an observer enters the
\* listener list only by subscribing, leaves it when its unsubscribe function
\* is called, and no call invokes an observer that is not on the list.
NotifiedWithinMutation ==
    [][ /\ mutated => /\ storeOp'.notified = _listeners
                      /\ storeOp'.seen = _clubs'
        /\ Range(storeOp'.notified) \subseteq Range(_listeners)
        /\ storeOp'.op = "unsubscribe" => storeOp'.arg \notin Range(_listeners')
        /\ \A fn \in Range(_listeners') \ Range(_listeners) :
               storeOp'.op = "subscribe" /\ storeOp'.arg = fn ]_vars

\* a club was added while obs2 was subscribed and obs1 no more: obs2 alone
\* was invoked, and it saw the new entry
OnlyRemainingObserverInvoked ==
    /\ storeOp.op = "addClub"
    /\ storeOp.ret
    /\ storeOp.notified = <<"obs2">>
    /\ _listeners = <<"obs2">>
    /\ storeOp.seen = _clubs
    /\ Len(_clubs) > Len(BUILT_IN_CLUBS)

builtInCodes == {BUILT_IN_CLUBS[i].code : i \in DOMAIN BUILT_IN_CLUBS}

\* the user-added entries of a stored list, and those of them whose code is
\* not a shipped one
storedUserAdded(stored) == SelectSeq(stored, userAdded)

storedUserOnly(stored) ==
    SelectSeq(stored, LAMBDA c : userAdded(c) /\ c.code \notin builtInCodes)

\* C13: after every load from a persisted list, the list is the shipped
\* built-ins under their shipped names, followed by the stored user-added
\* entries unchanged and in their stored order.
LoadRefreshesBuiltIns ==
    storeOp.op = "load" /\ storage.kind = "json" =>
        \/ _clubs = BUILT_IN_CLUBS \o storedUserAdded(storage.value)
        \/ _clubs = BUILT_IN_CLUBS \o storedUserOnly(storage.value)

-----------------------------------------------------------------------------
(* Score validation                                                        *)

\* C14: for any distance string d, getMaxScore(d) is a positive multiple of
\* 360, validateScore(getMaxScore(d), d) is valid and
\* validateScore(getMaxScore(d) + 1, d) is invalid.
MaxScoreIsPositiveBound ==
    /\ call.fn = "getMaxScore" =>
           call.ret > 0 /\ call.ret % MAX_POINTS_PER_DISTANCE = 0
    /\ call.fn = "validateScore" =>
           /\ call.score = getMaxScore(call.distance) => call.ret.valid
           /\ call.score = getMaxScore(call.distance) + 1 => ~call.ret.valid

allDigits(s) == s # <<>> /\ \A i \in DOMAIN s : IsDigit(s[i])

allSpaces(s) == \A i \in DOMAIN s : IsSpace(s[i])

\* s is <digits> <spaces> x|X|× <spaces> <digits> m, the first number ending
\* at position a and the sign standing at position b
timesFormAt(s, a, b) ==
    /\ allDigits(SubSeq(s, 1, a))
    /\ allSpaces(SubSeq(s, a + 1, b - 1))
    /\ s[b] \in {"x", "X", "×"}
    /\ s[Len(s)] = "m"
    /\ \E c \in (b + 1)..(Len(s) - 1) :
           allSpaces(SubSeq(s, b + 1, c - 1)) /\ allDigits(SubSeq(s, c, Len(s) - 1))

timesForms(s) ==
    { <<a, b>> \in (1..Len(s)) \X (1..Len(s)) : a < b /\ timesFormAt(s, a, b) }

\* s has the form <n>x<dist>m, and the n it has
isTimesForm(s) == timesForms(s) # {}

timesOf(s) == DigitsValue(SubSeq(s, 1, (CHOOSE f \in timesForms(s) : TRUE)[1]))

\* s has the form <dist>m
isBareForm(s) == Len(s) >= 2 /\ s[Len(s)] = "m" /\ allDigits(SubSeq(s, 1, Len(s) - 1))

\* the rounds of one '+'-separated segment: every segment counts, a segment
\* n x dist for n
segmentRounds(seg) == IF isTimesForm(seg) THEN timesOf(seg) ELSE 1

\* the rounds of one segment, a segment of neither form counting for nothing
formRounds(seg) ==
    IF isTimesForm(seg) THEN timesOf(seg)
    ELSE IF isBareForm(seg) THEN 1
    ELSE 0

RECURSIVE sumOver(_, _)
sumOver(Rounds(_), segs) ==
    IF segs = <<>> THEN 0 ELSE Rounds(trim(Head(segs))) + sumOver(Rounds, Tail(segs))

\* the count the text stands for, given how a segment is counted
roundsOf(Rounds(_), s) ==
    IF s = <<>> THEN 1
    ELSE IF isTimesForm(s) THEN timesOf(s)
    ELSE IF includes(s, <<"+">>) THEN sumOver(Rounds, split(s, "+"))
    ELSE 1

roundsOrOne(n) == IF n = 0 THEN 1 ELSE n

\* some '+'-separated segment of s is of neither form
hasOtherSegment(s) ==
    /\ ~isTimesForm(s)
    /\ includes(s, <<"+">>)
    /\ \E i \in DOMAIN split(s, "+") :
           LET seg == trim(split(s, "+")[i])
           IN  ~isTimesForm(seg) /\ ~isBareForm(seg)

\* C15 as stated: parseDistanceCount returns n for <n>x<dist>m, for a
\* '+'-joined string the count of its segments with an n x dist segment
\* counting n, and 1 for a bare <dist>m, an empty or an unparseable string
\* (a '+'-joined string with a segment of neither form may count as either).
DistanceCountOfSegments ==
    call.fn = "parseDistanceCount" =>
        \/ call.ret = roundsOf(segmentRounds, toLowerCase(trim(call.distance)))
        \/ hasOtherSegment(toLowerCase(trim(call.distance))) /\ call.ret = 1

\* C15: parseDistanceCount returns n for <n>x<dist>m; for a '+'-joined
\* string the sum over its segments, an n x dist segment counting n, a bare
\* <dist>m segment 1 and any other segment nothing, and 1 if that sum is 0;
\* 1 for a bare <dist>m, an empty or an unparseable string.
DistanceCountOfRecognisedSegments ==
    call.fn = "parseDistanceCount" =>
        call.ret = IF isTimesForm(toLowerCase(trim(call.distance)))
                   THEN timesOf(toLowerCase(trim(call.distance)))
                   ELSE roundsOrOne(roundsOf(formRounds, toLowerCase(trim(call.distance))))

\* "70m+50m+30" was counted as two rounds: its third segment is not a distance
UnrecognisedSegmentNotCounted ==
    /\ call.fn = "parseDistanceCount"
    /\ call.distance = <<"7","0","m","+","5","0","m","+","3","0">>
    /\ call.ret = 2

-----------------------------------------------------------------------------
(* Record parser                                                           *)

\* the corrections of a record for one field
correctionsFor(rec, field) ==
    { k \in DOMAIN rec["_corrections"] : rec["_corrections"][k].field = field }

\* the maximum for the record's own distance text
maximumOf(rec) == getMaxScore(rec["Shooting Exercise"])

\* C16: a parsed row whose result exceeds the maximum for its normalized
\* distance, or is negative, carries a Correction with field "Result",
\* method "validation" and confidence 0 and needs review; a row whose result
\* lies between 0 and the maximum carries no Result correction.
InvalidScoreCarriesValidationCorrection ==
    call.fn = "parseRow" =>
        /\ call.ret.Result < 0 \/ call.ret.Result > maximumOf(call.ret) =>
              /\ \E k \in correctionsFor(call.ret, "Result") :
                    /\ call.ret["_corrections"][k].method = "validation"
                    /\ call.ret["_corrections"][k].confidence = 0
              /\ call.ret["_needsReview"]
        /\ call.ret.Result >= 0 /\ call.ret.Result <= maximumOf(call.ret) =>
              correctionsFor(call.ret, "Result") = {}

\* the match of the row's club column against the live list
clubMatchOf(row) == matchClub(sanitize(row.Club), _clubs)

\* C17: for every record the parser produces, the needs-review flag is true
\* if and only if the club-match confidence is below 90 or a score issue was
\* recorded for the row, and the record's confidence is the club-match
\* confidence.
NeedsReviewIffLowConfidenceOrScoreIssue ==
    call.fn = "parseRow" =>
        /\ call.ret["_needsReview"] <=>
              \/ clubMatchOf(call.row).confidence < 90
              \/ correctionsFor(call.ret, "Result") # {}
        /\ call.ret["_confidence"] = clubMatchOf(call.row).confidence

\* a row whose club matched exactly is flagged for its score alone
FlaggedForScoreAlone ==
    /\ call.fn = "parseRow"
    /\ call.row.Club = SAG
    /\ call.ret["_confidence"] = 100
    /\ call.ret.Result = 800
    /\ correctionsFor(call.ret, "Result") # {}
    /\ call.ret["_needsReview"]

\* C18: every record the parser creates has a result of at least 0, and a
\* record that passed score validation has a result of at most the maximum
\* for its distance.
ParsedResultWithinBounds ==
    call.fn = "parseRow" =>
        /\ call.ret.Result >= 0
        /\ validateScore(call.ret.Result, call.ret["Shooting Exercise"]).valid =>
               call.ret.Result <= maximumOf(call.ret)

\* the positions of the list whose code is the text, letter case aside
codesEqualTo(text) == { i \in DOMAIN _clubs : sameCode(_clubs[i].code, text) }

\* C19: matching a club text that equals a stored code in any letter case
\* returns that code with confidence 100 and method "exact-code"; matching
\* the empty string returns confidence 0 and method "unknown" when the list
\* is not empty.
StoredCodeMatchesAsExactCode ==
    call.fn = "matchClub" =>
        /\ \A i \in codesEqualTo(call.text) :
              /\ call.ret.code = _clubs[i].code
              /\ call.ret.confidence = 100
              /\ call.ret.method = "exact-code"
        /\ call.text = <<>> /\ _clubs # <<>> =>
              call.ret.confidence = 0 /\ call.ret.method = "unknown"

-----------------------------------------------------------------------------
(* Turn-taking of the review                                               *)

\* the last operation decided the last ticket of its phase, which finalised
\* the phase with the decision map lastFinalised.decisions
finalisedByLastDecision ==
    /\ reviewOp.op \in {"approve", "reject"}
    /\ finalised # <<>>
    /\ finalised[Len(finalised)].phase = reviewOp.phase

lastFinalised == finalised[Len(finalised)]

ticketsOf(ph) == IF ph = "consistency" THEN consistencyTickets ELSE importTickets

decidedIds(decs) == { decs[k].id : k \in DOMAIN decs }

\* C20: the review is strictly turn-based: the position advances from a
\* ticket to the next only once a decision is recorded for it, so whenever a
\* phase is finalised by deciding its last ticket, every ticket of the phase
\* has a recorded decision.
EveryTicketDecidedAtFinalise ==
    /\ reviewOp.op = "skip" => reviewOp.ticket \in decidedIds(decisions)
    /\ finalisedByLastDecision =>
          \A j \in DOMAIN ticketsOf(reviewOp.phase) :
              ticketsOf(reviewOp.phase)[j].id \in decidedIds(lastFinalised.decisions)

-----------------------------------------------------------------------------
(* Properties of the order of the review stages                            *)

\* the step hands records to transitionToConsistency
transitionRuns ==
    /\ reviewOp'.phase = "import"
    /\ (reviewOp'.op = "continue" \/ Len(finalised') > Len(finalised))

\* transitionToConsistency has run
transitionRan == phase = "consistency" \/ completed

\* the records the import phase hands on: the imported records when nothing was
\* flagged, the records corrected by the import decisions otherwise
importCorrected(decs) ==
    IF importTickets = <<>> THEN records
    ELSE Array(importFixedRecords(records, importTickets, decs))

-----------------------------------------------------------------------------
(* Properties of a batch import                                            *)

parsedFiles == call.fn = "parseFiles"

\* the number of rows of the first k files
RECURSIVE rowsBefore(_, _)
rowsBefore(files, k) ==
    IF k = 0 THEN 0 ELSE rowsBefore(files, k - 1) + Len(files[k].rows)

\* the file that row number i of the batch lies in
fileOf(files, i) ==
    CHOOSE k \in DOMAIN files : rowsBefore(files, k - 1) < i /\ i <= rowsBefore(files, k)

\* row number i of the batch, the files taken in their order and the rows of
\* a file in theirs, parsed on its own
batchRecord(files, i) ==
    parseRow(files[fileOf(files, i)].rows[i - rowsBefore(files, fileOf(files, i) - 1)], 0,
             files[fileOf(files, i)].name, _clubs)

\* C22: the records of a batch of files carry the ids 1..N without gap or
\* duplicate, in file order and then row order
BatchIdsContiguous ==
    parsedFiles =>
        /\ Len(call.ret) = rowsBefore(call.files, Len(call.files))
        /\ \A i \in DOMAIN call.ret :
              call.ret[i] = [batchRecord(call.files, i) EXCEPT !["_id"] = i]
        /\ {call.ret[i]["_id"] : i \in DOMAIN call.ret} = 1..Len(call.ret)

\* a batch of two files with rows in both: the second file's first row does
\* not restart at 1
SecondFileContinues ==
    /\ parsedFiles /\ Len(call.files) = 2
    /\ Len(call.files[1].rows) = 2 /\ Len(call.files[2].rows) = 2
    /\ call.files[1].rows[1] # call.files[1].rows[2]
    /\ call.ret[3]["_id"] = 3 /\ call.ret[3]["_sourceFile"] = call.files[2].name

-----------------------------------------------------------------------------
(* Properties of the age-class auto-resolution                             *)

\* the record with its age class set and the correction for it appended
withAgeCorrection(r, class) ==
    [r EXCEPT !["Age Class"] = class,
              !["_corrections"] =
                  r["_corrections"]
                      \o << [field |-> "Age Class", original |-> r["Age Class"],
                             corrected |-> class, method |-> "extraction",
                             confidence |-> 95] >>]

\* C23: the auto-resolver returns as many records as it was given, in their
\* order; a record whose age class it changes differs from the one given only
\* in the age class and in one correction appended after the existing ones
\* (Age Class, old class, new class, "extraction", 95); every other record is
\* returned as it was given
AutoFixChangesOnlyResolved ==
    transitionRan =>
        /\ Len(autoFixed) = Len(fixedRecords)
        /\ \A i \in DOMAIN fixedRecords :
              IF autoFixed[i]["Age Class"] # fixedRecords[i]["Age Class"]
              THEN autoFixed[i] = withAgeCorrection(fixedRecords[i], autoFixed[i]["Age Class"])
              ELSE autoFixed[i] = fixedRecords[i]

\* one record that already carried corrections was resolved, another of the
\* same run was not
ResolvedBesideUntouched ==
    /\ transitionRan
    /\ \E i, j \in DOMAIN fixedRecords :
          /\ autoFixed[i]["Age Class"] # fixedRecords[i]["Age Class"]
          /\ fixedRecords[i]["_corrections"] # <<>>
          /\ fixedRecords[i]["_needsReview"]
          /\ autoFixed[j] = fixedRecords[j]

-----------------------------------------------------------------------------
(* Properties of the consistency tickets                                   *)

builtConsistencyTickets == call.fn = "buildConsistencyTickets"

\* the trimmed, case-folded name of a record
foldedName(r) == toLowerCase(trim(r["Athlete"]))

\* the records of recs (by position) that share the folded name
athleteGroup(recs, name) == {i \in DOMAIN recs : foldedName(recs[i]) = name}

idsOf(recs, G) == {recs[i]["_id"] : i \in G}

valuesOf(recs, G, F) == {recs[i][F] : i \in G}

occurrences(recs, G, F, v) == Cardinality({i \in G : recs[i][F] = v})

mostFrequent(recs, G, F, v) ==
    /\ v \in valuesOf(recs, G, F)
    /\ \A w \in valuesOf(recs, G, F) : occurrences(recs, G, F, v) >= occurrences(recs, G, F, w)

\* p is the share c of n in percent, rounded to the nearest whole number
roundedShare(p, c, n) == 2 * n * p <= 200 * c + n /\ 200 * c + n < 2 * n * p + 2 * n

\* the tickets of the field that affect a record of the group
ticketsFor(built, recs, G, F) ==
    {k \in DOMAIN built :
        built[k].field = F /\ Range(built[k].recordIds) \cap idsOf(recs, G) # {}}

\* the ticket is the one the group raises for the field
groupTicket(t, recs, G, F) ==
    /\ Range(t.recordIds) = idsOf(recs, G)
    /\ Len(t.recordIds) = Cardinality(G)
    /\ mostFrequent(recs, G, F, t.suggestedValue)
    /\ roundedShare(t.confidence, occurrences(recs, G, F, t.suggestedValue), Cardinality(G))

\* the group has its one ticket for the field when the field varies in a
\* group of two or more, and none otherwise
ticketIffVaries(built, recs, G, F) ==
    IF Cardinality(G) >= 2 /\ Cardinality(valuesOf(recs, G, F)) > 1
    THEN /\ Cardinality(ticketsFor(built, recs, G, F)) = 1
         /\ \A k \in ticketsFor(built, recs, G, F) : groupTicket(built[k], recs, G, F)
    ELSE ticketsFor(built, recs, G, F) = {}

GroupFields == {"Athlete", "Gender", "Bow Type"}

\* C24 as stated: every group of records sharing the trimmed, case-folded
\* name has a ticket for Athlete, Gender or Bow Type exactly when it has two
\* or more records and more than one value of the field; the ticket affects
\* all records of the group, suggests a most frequent value and carries that
\* value's rounded percentage share as confidence
TicketIffGroupVaries ==
    builtConsistencyTickets =>
        \A name \in {foldedName(call.recs[i]) : i \in DOMAIN call.recs} :
            \A F \in GroupFields :
                ticketIffVaries(call.ret, call.recs, athleteGroup(call.recs, name), F)

\* C24, amended: the same for the groups whose folded name is not empty;
\* records without a name raise no ticket
TicketIffNamedGroupVaries ==
    builtConsistencyTickets =>
        \A name \in {foldedName(call.recs[i]) : i \in DOMAIN call.recs} :
            \A F \in GroupFields :
                IF name # <<>>
                THEN ticketIffVaries(call.ret, call.recs, athleteGroup(call.recs, name), F)
                ELSE ticketsFor(call.ret, call.recs, athleteGroup(call.recs, name), F) = {}

\* a named group of three whose gender varies two to one has its ticket
GenderTicketOfThree ==
    /\ builtConsistencyTickets
    /\ \E k \in DOMAIN call.ret :
          /\ call.ret[k].field = "Gender"
          /\ call.ret[k].confidence = 67
          /\ Len(call.ret[k].recordIds) = 3

\* the records of the athlete dated in the year
yearGroup(recs, name, year) ==
    {i \in athleteGroup(recs, name) : extractYear(recs[i]["Date"]) = year}

\* the suggestion of an age-class ticket: what the ladders resolve the classes
\* of the group to, and a most frequent class when they resolve to nothing
ladderOrMostFrequent(recs, G, v) ==
    IF resolveAgeClass(column(elementsAt(recs, G), "Age Class")) # null
    THEN v = resolveAgeClass(column(elementsAt(recs, G), "Age Class"))
    ELSE mostFrequent(recs, G, "Age Class", v)

\* the group has its one age-class ticket when it holds more than one age
\* class, and none otherwise
ageTicketIffVaries(built, recs, G) ==
    IF Cardinality(valuesOf(recs, G, "Age Class")) > 1
    THEN /\ Cardinality(ticketsFor(built, recs, G, "Age Class")) = 1
         /\ \A k \in ticketsFor(built, recs, G, "Age Class") :
               /\ Range(built[k].recordIds) = idsOf(recs, G)
               /\ Len(built[k].recordIds) = Cardinality(G)
               /\ ladderOrMostFrequent(recs, G, built[k].suggestedValue)
    ELSE ticketsFor(built, recs, G, "Age Class") = {}

yearsOf(recs) == {extractYear(recs[i]["Date"]) : i \in DOMAIN recs}

\* C25 as stated: after the auto-resolution, the records of one folded name
\* dated in one year have an age-class ticket exactly when they hold more than
\* one age class; the ticket affects exactly those records and suggests the
\* class the ladders resolve to, or else a most frequent class
AgeTicketIffYearVaries ==
    builtConsistencyTickets =>
        \A name \in {foldedName(call.recs[i]) : i \in DOMAIN call.recs} :
            \A year \in yearsOf(call.recs) :
                ageTicketIffVaries(call.ret, call.recs, yearGroup(call.recs, name, year))

\* C25, amended: the same for the records with a name; records without a name
\* raise no age-class ticket
AgeTicketIffNamedYearVaries ==
    builtConsistencyTickets =>
        \A name \in {foldedName(call.recs[i]) : i \in DOMAIN call.recs} :
            \A year \in yearsOf(call.recs) :
                IF name # <<>>
                THEN ageTicketIffVaries(call.ret, call.recs, yearGroup(call.recs, name, year))
                ELSE ticketsFor(call.ret, call.recs, yearGroup(call.recs, name, year),
                                "Age Class") = {}

\* an athlete with records in two years: the ticket of the year with a youth
\* and a senior class leaves the record of the other year out
AgeTicketOfOneYear ==
    /\ builtConsistencyTickets
    /\ Len(call.recs) = 3
    /\ Cardinality({foldedName(call.recs[i]) : i \in DOMAIN call.recs}) = 1
    /\ \E k \in DOMAIN call.ret :
          /\ call.ret[k].field = "Age Class"
          /\ Len(call.ret[k].recordIds) = 2

-----------------------------------------------------------------------------
(* Properties of an approved Result                                        *)

approvedResult ==
    /\ call.fn = "handleImportFinalise"
    /\ Len(call.tickets) = 1 /\ call.tickets[1].field = "Result"
    /\ Len(call.ret) = 1

\* the text is a whole number: an optional sign and digits, white space
\* around them allowed
unsigned(t) == IF t # <<>> /\ t[1] \in {"-", "+"} THEN Tail(t) ELSE t

isNumberText(s) == allDigits(unsigned(trim(s)))

numberText(s) ==
    IF trim(s)[1] = "-" THEN 0 - DigitsValue(unsigned(trim(s)))
    ELSE DigitsValue(unsigned(trim(s)))

\* C26: when the approved ticket is on Result, the record's Result is the
\* number the decided text parses to (0 included), and the original Result
\* when the text does not parse
ResultParsedBack ==
    approvedResult =>
        IF isNumberText(call.text)
        THEN call.ret[1]["Result"] = numberText(call.text)
        ELSE call.ret[1]["Result"] = call.recs[1]["Result"]

-----------------------------------------------------------------------------
(* Properties of the passage between the phases                            *)

\* the consistency phase has just begun: the last handler ran in the import
\* phase and left the consistency tickets on screen
consistencyBegins == phase = "consistency" /\ reviewOp.phase = "import"

\* C27: when the consistency phase begins, the active ticket is the first
\* consistency ticket and no decision is recorded
ConsistencyStartsFresh ==
    consistencyBegins => currentIdx = 0 /\ decisions = <<>>

\* the active position is one of the tickets on screen
positionInRange == currentIdx < Len(tickets)

\* a ticket can be decided, or the batch buttons are shown
canDecide == hasCurrent \/ remaining > 1

\* C28: while tickets are under review, the active position lies within the
\* tickets of the phase and an action that leads on is enabled, so that a
\* reviewer who keeps acting gets the final records delivered; a review in
\* which nothing can be done never delivers them
ReviewNeverStuck == reviewing => positionInRange /\ canDecide

-----------------------------------------------------------------------------
(* Properties of conflicting import decisions                              *)

\* the position in decs of the decision for the ticket
decidedAt(decs, ticket) == CHOOSE k \in DOMAIN decs : decs[k].id = ticket.id

\* the imported record lies in an approved and in a rejected import ticket
approvedAndRejected(r) ==
    \E a, b \in DOMAIN importTickets :
        /\ affects(importTickets[a], r) /\ affects(importTickets[b], r)
        /\ decidedAs(importDecisions, importTickets[a], "approve")
        /\ decidedAs(importDecisions, importTickets[b], "reject")

-----------------------------------------------------------------------------
(* Properties of the steps of the application                              *)

\* C30: the step on screen is never one the navigation marks as locked:
\* review is on screen only if parsed records exist, database and logs only
\* if the reviewed records are not empty
NoLockedStepShown ==
    /\ step = "review" => parsed # <<>>
    /\ step \in {"database", "logs"} => reviewed # <<>>

====
